---- MODULE Spec2Model ----
(***************************************************************************)
(* Noor audio-navigation player: the arbitration between the input         *)
(* handlers (button-scanning main loop, encoder task) and the audio task,  *)
(* for the three firmware variants noor_v1, noor_v2 and Noor_RTOS_version. *)
(*                                                                         *)
(* Granularity.  The three tasks are pre-emptible FreeRTOS tasks created   *)
(* with tskNO_AFFINITY, so their statements interleave.  Every write to a  *)
(* shared control word is a step of its own; the reads that decide a       *)
(* branch are taken together with the first write of that branch.  Runs of *)
(* adjacent assignments to the playback status words (playing_track,       *)
(* g_playing, g_pause) are one step.  Input debouncing, the encoder queue  *)
(* and the volume are not part of this specification.                      *)
(***************************************************************************)
EXTENDS Integers, Sequences, FiniteSets, TLC

(* ---------------------------------------------------------------------- *)
(* Bounds                                                                  *)
(* ---------------------------------------------------------------------- *)

\* Number of 1024-frame chunks in every WAV file of the card image.
FileLen == 2

\* Number of input events (presses and rotary steps) of a run.
MaxEvents == 5

\* The time, in ms, over which the input sources are followed.
MaxTime == 120

\* The number of edges (rotary steps, switch presses, button level changes)
\* in that time.
MaxInputs == 3

(* ---------------------------------------------------------------------- *)
(* File names, paths and the card image                                    *)
(* ---------------------------------------------------------------------- *)

\* A file name is a sequence of characters, a path a sequence of names.
NULL == <<>>

EXT_WAV == <<".", "w", "a", "v">>

SDCARD == <<"s", "d", "c", "a", "r", "d">>

NAME_00 == <<"0", "0">>

NAME_01 == <<"0", "1">>

NAME_STORIES == <<"s", "t", "o", "r", "i", "e", "s">>

\* A folder whose name differs from "stories" in case only.
NAME_Stories == <<"S", "t", "o", "r", "i", "e", "s">>

NAME_02 == <<"0", "2">>

NAME_AUDIOS == <<"a", "u", "d", "i", "o", "s">>

WELCOME_WAV == <<"w", "e", "l", "c", "o", "m", "e">> \o EXT_WAV

HOME_WAV == <<"h", "o", "m", "e">> \o EXT_WAV

STORIES_WAV == NAME_STORIES \o EXT_WAV

TRACK_A == <<"a">> \o EXT_WAV

TRACK_S1 == <<"S", "1">> \o EXT_WAV

TRACK_B == <<"b">> \o EXT_WAV

TRACK_s2 == <<"s", "2">> \o EXT_WAV

TRACK_S3 == <<"S", "3">> \o EXT_WAV

TRACK_S4 == <<"S", "4">> \o EXT_WAV

Digits == {"0", "1", "2", "3", "4", "5", "6", "7", "8", "9"}

isdigit(c) == c \in Digits

\* tolower() on the characters that occur in the card image.
tolower(c) == IF c = "S" THEN "s" ELSE c

strcasecmp_eq(n1, n2) ==
    /\ Len(n1) = Len(n2)
    /\ \A i \in 1..Len(n1) : tolower(n1[i]) = tolower(n2[i])

\* sprintf(p, "%s/%s", dir, name)
make_path(dir, name) == Append(dir, name)

\* strrchr(fp, '/') + 1
basename(fp) == fp[Len(fp)]

\* the directory part of a full name (memcpy of the bytes before the last '/')
dirname(fp) == SubSeq(fp, 1, Len(fp) - 1)

ROOT == <<SDCARD>>

\* snprintf(..., "story%d.wav", n)
story_name(n) == <<"s", "t", "o", "r", "y", n>> \o EXT_WAV

VARIABLES
    variant,               \* which firmware variant runs
    card,                  \* the card image (it never changes)
    nav_state,
    selected_folder,
    wav_list,              \* the track paths; num_tracks is its length
    current_track,
    playing_track,
    g_playing,
    g_pause,
    announce_path,
    announce_request,      \* v2: the pending flag
    track_change_request,  \* v1, v2
    g_stop_and_rewind,     \* v1, v2
    stop_flag,             \* rtos
    notify,                \* rtos: the audio task's notification value
    audio_task_handle,     \* TRUE once the audio task has been created
    pc,                    \* position of each task
    hv,                    \* locals of the two input handlers
    a,                     \* locals of the audio task
    st,                    \* locals of the stream call of main and audio
    i2s,                   \* number of I2S driver installs not yet undone
    files,                 \* number of files opened and not yet closed
    g_volume_percent,
    scale,                 \* the volume scaling of the chunk being streamed
    now,                   \* xTaskGetTickCount() * portTICK_PERIOD_MS
    enc_queue,
    last_step_time,        \* encoder_task
    last_sw_time,          \* encoder_task
    btn,                   \* last_time and last_state of the four buttons
    level,                 \* the GPIO level of the four buttons
    inp,                   \* observer of the input sources
    events,                \* number of input events accepted so far
    obs,                   \* observer: requests raised during the audio job
    fin                    \* observer: the last input event

vars == <<variant, card, nav_state, selected_folder, wav_list, current_track,
          playing_track, g_playing, g_pause, announce_path, announce_request,
          track_change_request, g_stop_and_rewind, stop_flag, notify,
          audio_task_handle, pc, hv, a, st, i2s, files, g_volume_percent,
          scale, now, enc_queue, last_step_time, last_sw_time, btn, level,
          inp, events, obs, fin>>

\* A card image: the clips at the storage root and the readdir() order of
\* the folders at the root.  The card of Spec:
StdCard ==
    [clips |-> {WELCOME_WAV, HOME_WAV, STORIES_WAV, story_name("1")},
     folders |-> <<NAME_00, NAME_01>>]

\* A card with an empty folder and a folder "Stories" that has its own
\* stories.wav and story2.wav besides the ones at the root.
AltCard ==
    [clips |-> {HOME_WAV, STORIES_WAV, story_name("2")},
     folders |-> <<NAME_Stories, NAME_AUDIOS>>]

\* A card with no clip at the root: the folder "stories" has no stories.wav,
\* its track S3 has no story clip, its track S4 has one in the folder.
BareCard ==
    [clips |-> {},
     folders |-> <<NAME_STORIES>>]

\* No card, or a card that cannot be mounted or has no folder.
NoCard == [clips |-> {}, folders |-> <<>>]

\* The files at the storage root (besides the folders).
RootClips == card.clips

\* readdir() order of the folders at the root.
RootFolders == card.folders

\* readdir() order of the .wav files of a folder.
FolderFiles(name) ==
    IF name = NAME_01 THEN <<TRACK_S1, TRACK_B>>
    ELSE IF name = NAME_00 THEN <<TRACK_A>>
    ELSE IF name = NAME_Stories
         THEN <<TRACK_s2, story_name("2"), STORIES_WAV>>
    ELSE IF name = NAME_STORIES
         THEN <<TRACK_S3, TRACK_S4, story_name("4")>>
    ELSE <<>>

\* access(path, F_OK) == 0
access(path) ==
    \/ /\ Len(path) = 2
       /\ path[1] = SDCARD
       /\ path[2] \in RootClips
    \/ /\ Len(path) = 3
       /\ path[1] = SDCARD
       /\ \E i \in 1..Len(RootFolders) :
            /\ path[2] = RootFolders[i]
            /\ \E j \in 1..Len(FolderFiles(RootFolders[i])) :
                 path[3] = FolderFiles(RootFolders[i])[j]

\* scan_root_folders("/sdcard"): the full paths of the directories.
folder_list == [i \in 1..Len(RootFolders) |-> make_path(ROOT, RootFolders[i])]

num_folders == Len(folder_list)

\* scan_wavs_in_folder(path): the full paths of the .wav files.
scan_wavs_in_folder(path) ==
    [j \in 1..Len(FolderFiles(basename(path))) |->
        make_path(path, FolderFiles(basename(path))[j])]

\* strcasecmp(nameptr, name) == 0 for folder_list[i]
IsNamed(i, name) == strcasecmp_eq(basename(folder_list[i + 1]), name)

\* Faulty variant of DefaultScan: "audios" ends the loop like "01".
RECURSIVE DefaultScan_FirstMatch(_, _)
DefaultScan_FirstMatch(i, found_idx) ==
    IF i >= num_folders THEN found_idx
    ELSE IF IsNamed(i, NAME_01) \/ IsNamed(i, NAME_AUDIOS) THEN i
    ELSE DefaultScan_FirstMatch(i + 1, found_idx)

\* The loop over the folders from index i on with found_idx so far:
\* "01" sets found_idx and breaks; "audios" sets it while it is negative.
RECURSIVE DefaultScan(_, _)
DefaultScan(i, found_idx) ==
    IF i >= num_folders THEN found_idx
    ELSE IF IsNamed(i, NAME_01) THEN i
    ELSE IF found_idx < 0 /\ IsNamed(i, NAME_AUDIOS)
         THEN DefaultScan(i + 1, i)
         ELSE DefaultScan(i + 1, found_idx)

\* selected_folder after the boot scan: (found_idx >= 0) ? found_idx : 0;
\* with no folder it stays the 0 of free_folder_list.
DefaultFolder ==
    IF num_folders > 0
    THEN IF DefaultScan(0, -1) >= 0 THEN DefaultScan(0, -1) ELSE 0
    ELSE 0

(* ---------------------------------------------------------------------- *)
(* Announcement selection                                                  *)
(* ---------------------------------------------------------------------- *)

\* Faulty variant of StoriesClip: strcmp in place of strcasecmp.
StoriesClip_CaseSensitive(fp) ==
    IF \/ basename(fp) = NAME_01
       \/ basename(fp) = NAME_STORIES
    THEN IF access(make_path(ROOT, STORIES_WAV))
         THEN make_path(ROOT, STORIES_WAV)
         ELSE IF access(make_path(fp, STORIES_WAV))
              THEN make_path(fp, STORIES_WAV)
              ELSE NULL
    ELSE NULL

\* Folder "01"/"stories": the root stories.wav, else the folder's own, else
\* no request (NULL).
StoriesClip(fp) ==
    IF \/ strcasecmp_eq(basename(fp), NAME_01)
       \/ strcasecmp_eq(basename(fp), NAME_STORIES)
    THEN IF access(make_path(ROOT, STORIES_WAV))
         THEN make_path(ROOT, STORIES_WAV)
         ELSE IF access(make_path(fp, STORIES_WAV))
              THEN make_path(fp, STORIES_WAV)
              ELSE NULL
    ELSE NULL

\* Faulty variant of StoryClip: the folder's own clip is tried first.
StoryClip_FolderFirst(fullname) ==
    LET b == basename(fullname)
    IN  IF /\ Len(b) >= 2
           /\ b[1] \in {"S", "s"}
           /\ isdigit(b[2])
        THEN IF access(make_path(dirname(fullname), story_name(b[2])))
             THEN make_path(dirname(fullname), story_name(b[2]))
             ELSE IF access(make_path(ROOT, story_name(b[2])))
                  THEN make_path(ROOT, story_name(b[2]))
                  ELSE NULL
        ELSE NULL

\* Track "S<n>...": the root story<n>.wav, else the folder's own, else NULL.
StoryClip(fullname) ==
    LET b == basename(fullname)
    IN  IF /\ Len(b) >= 2
           /\ b[1] \in {"S", "s"}
           /\ isdigit(b[2])
        THEN IF access(make_path(ROOT, story_name(b[2])))
             THEN make_path(ROOT, story_name(b[2]))
             ELSE IF access(make_path(dirname(fullname), story_name(b[2])))
                  THEN make_path(dirname(fullname), story_name(b[2]))
                  ELSE NULL
        ELSE NULL

(* ---------------------------------------------------------------------- *)
(* State                                                                   *)
(* ---------------------------------------------------------------------- *)

NAV_HOME == "NAV_HOME"

NAV_FOLDER_VIEW == "NAV_FOLDER_VIEW"

NAV_FILE_VIEW == "NAV_FILE_VIEW"

Variants == {"v1", "v2", "rtos"}

Tasks == {"main", "enc", "audio"}

Handlers == {"main", "enc"}

Streamers == {"main", "audio"}

num_tracks == Len(wav_list)

\* wav_list[idx]; an entry beyond the list is NULL (free_wav_list clears it).
WavAt(idx) ==
    IF idx >= 0 /\ idx < num_tracks THEN wav_list[idx + 1] ELSE NULL

NoNotify == [ann |-> FALSE, play |-> 0]

HvIdle == [path |-> NULL, cont |-> "idle", folder |-> NULL]

AIdle == [kind |-> "none", idx |-> -1, local_ann |-> NULL]

StIdle == [path |-> NULL, pos |-> 0, stop |-> "none", pause |-> FALSE,
           ret |-> "none", result |-> "none", wr |-> "none", err |-> "none"]

\* scale.chk: the volume read by "if (g_volume_percent != 100)"; scale.vol:
\* the volume read for the multiplication; scale.s, scale.out: a sample of
\* the chunk before and after scaling.
ScaleIdle == [pc |-> "none", chk |-> 100, vol |-> 100, s |-> 0, out |-> 0]

\* The four buttons scanned by app_main.
Buttons == {"play", "home", "volp", "volm"}

\* The input sources: the rotary steps, the rotary switch, the buttons.
Sources == {"CLK", "SW"} \cup Buttons

\* btn_t as initialised: last_time 0, last_state false.
BtnIdle == [last_time |-> 0, last_state |-> FALSE]

\* No input so far.  inp.left: the edges the environment may still produce
\* (clockwise steps, counter-clockwise steps, switch presses, button level
\* changes, and all together); inp.sent / inp.recv: the number of events
\* queued / received; inp.dropped: the number of events sent to a full
\* queue; inp.acc: the time of the last accepted edge of each source (-1:
\* none); inp.seen: the last verdict of a debounce test.
NoVerdict == [src |-> "none", at |-> 0, prev |-> -1, ok |-> FALSE]

InpIdle ==
    [left |-> [cw |-> 0, ccw |-> 0, sw |-> 0, btn |-> 0, all |-> 0],
     sent |-> 0, recv |-> 0, dropped |-> 0,
     acc |-> [x \in Sources |-> -1],
     seen |-> NoVerdict]

\* The input state at boot, with no input to come.
InputIdle ==
    /\ now = 0
    /\ enc_queue = <<>>
    /\ last_step_time = 0
    /\ last_sw_time = 0
    /\ btn = [b \in Buttons |-> BtnIdle]
    /\ level = [b \in Buttons |-> FALSE]
    /\ inp = InpIdle

ObsIdle == [ann |-> -1, play |-> -1, home |-> -1, last |-> FALSE,
            pre |-> FALSE]

\* The program after the boot scan with its tasks at the positions at.
Started(at, sel) ==
    /\ nav_state = NAV_HOME
    /\ selected_folder = sel
    /\ wav_list = <<>>
    /\ current_track = 0
    /\ playing_track = -1
    /\ g_playing = FALSE
    /\ g_pause = FALSE
    /\ announce_path = NULL
    /\ announce_request = FALSE
    /\ track_change_request = FALSE
    /\ g_stop_and_rewind = FALSE
    /\ stop_flag = FALSE
    /\ notify = NoNotify
    /\ audio_task_handle = (at["audio"] # "none")
    /\ pc = at
    /\ hv = [t \in Handlers |-> HvIdle]
    /\ a = AIdle
    /\ st = [t \in Streamers |-> StIdle]
    /\ i2s = 0
    /\ files = 0
    /\ g_volume_percent = 100
    /\ scale = ScaleIdle
    /\ InputIdle
    /\ events = 0
    /\ obs = ObsIdle
    /\ fin = -1

\* The globals with the default folder of the boot scan selected.
Booted(at) == Started(at, DefaultFolder)

\* The program after the boot scan, before the greetings.
PowerOn ==
    Booted([t \in Tasks |-> IF t = "main" THEN "boot_welcome" ELSE "none"])

Init ==
    /\ variant \in Variants
    /\ card = StdCard
    /\ PowerOn

(* ---------------------------------------------------------------------- *)
(* Observer                                                                *)
(* ---------------------------------------------------------------------- *)

\* The audio task is inside the chunk loop of a stream call.
InLoop == pc["audio"] \in {"s_check", "s_io"}

\* The audio task is inside the chunk loop of a track's stream call.
TrackStreaming == a.kind = "trk" /\ InLoop

\* The audio task has taken an announcement (rtos: the notification was
\* received and the path copied; v2: the path copied and the flag cleared)
\* and has not left the chunk loop of its stream call.
AnnouncementTaken ==
    /\ a.kind = "ann"
    /\ pc["audio"] \in {IF variant = "rtos" THEN "ann_clear" ELSE "ann_status",
                        "s_open", "s_check", "s_io"}

\* The handler other than t is between events.
OtherIdle(t) == \A u \in Handlers \ {t} : pc[u] = "idle"

\* No input event will follow.
quiet == events = MaxEvents

\* Handler t raises an interrupt request of the given kind.  The observer
\* counts, for the first request of each kind raised during the current
\* job of the audio task, the chunks written after it.
ObsRaise(kind, t) ==
    CASE kind = "ann" /\ obs.ann < 0
                      /\ (TrackStreaming \/ AnnouncementTaken) ->
           [obs EXCEPT !.ann = 0,
                       !.last = quiet /\ OtherIdle(t) /\ notify.play = 0]
      [] kind = "play" /\ obs.play < 0 /\ TrackStreaming
                       /\ a.idx # current_track ->
           [obs EXCEPT !.play = 0]
      [] kind = "home" /\ obs.home < 0 /\ TrackStreaming ->
           [obs EXCEPT !.home = 0]
      [] OTHER -> obs

\* The audio task writes one more chunk.
ObsChunk ==
    [obs EXCEPT !.ann = IF @ < 0 THEN @ ELSE @ + 1,
                !.play = IF @ < 0 THEN @ ELSE @ + 1,
                !.home = IF @ < 0 THEN @ ELSE @ + 1]

\* The audio task is done with its job.  A track that was pre-empted by an
\* announcement stays marked when no input event follows, the other handler
\* was idle and no play request was waiting.
ObsJobEnd ==
    [ObsIdle EXCEPT !.pre = \/ obs.pre
                            \/ a.kind = "trk" /\ obs.ann >= 0 /\ obs.last]

(* ---------------------------------------------------------------------- *)
(* stream_file_interruptible (v2, rtos; the boot greetings of main)        *)
(* ---------------------------------------------------------------------- *)

\* What i2s_driver_install / i2s_set_pin / malloc can answer.
DeviceOutcomes == {"ok", "install_failed", "set_pin_failed", "no_mem"}

\* What parse_wav_header and the 16-bit test can answer for an opened file.
HeaderOutcomes == {"ok", "bad_header", "not_16bit"}

\* 1 if a resource was acquired and not released, else 0.
Held(acquired, released) == IF acquired /\ ~released THEN 1 ELSE 0

\* Faulty variant of StreamSetup: the sample width is tested after the
\* driver is installed.
StreamSetup_FormatAfterInstall(path, hdr, dev) ==
    LET none == [fopen |-> FALSE, fclose |-> FALSE, install |-> FALSE,
                 uninstall |-> FALSE, loop |-> FALSE]
    IN  IF path = NULL \/ ~access(path) THEN none
        ELSE IF hdr = "bad_header" \/ dev = "install_failed"
        THEN [none EXCEPT !.fopen = TRUE, !.fclose = TRUE]
        ELSE IF hdr = "not_16bit" \/ dev \in {"set_pin_failed", "no_mem"}
        THEN [none EXCEPT !.fopen = TRUE, !.fclose = TRUE, !.install = TRUE,
                          !.uninstall = TRUE]
        ELSE [none EXCEPT !.fopen = TRUE, !.install = TRUE, !.loop = TRUE]

\* Faulty variant of StreamSetup: the i2s_set_pin failure path returns
\* without closing the file.
StreamSetup_SetPinLeak(path, hdr, dev) ==
    LET none == [fopen |-> FALSE, fclose |-> FALSE, install |-> FALSE,
                 uninstall |-> FALSE, loop |-> FALSE]
    IN  IF path = NULL \/ ~access(path) THEN none
        ELSE IF hdr # "ok" \/ dev = "install_failed"
        THEN [none EXCEPT !.fopen = TRUE, !.fclose = TRUE]
        ELSE IF dev = "set_pin_failed"
        THEN [none EXCEPT !.fopen = TRUE, !.install = TRUE,
                          !.uninstall = TRUE]
        ELSE IF dev = "no_mem"
        THEN [none EXCEPT !.fopen = TRUE, !.fclose = TRUE, !.install = TRUE,
                          !.uninstall = TRUE]
        ELSE [none EXCEPT !.fopen = TRUE, !.install = TRUE, !.loop = TRUE]

\* The part of a stream before its chunk loop, path by path: which of
\* fopen / fclose / i2s_driver_install / i2s_driver_uninstall are executed
\* and whether the chunk loop is entered.
\*   fullpath NULL, fopen fails:       return false
\*   bad header, not 16 bit:           fclose; return false
\*   i2s_driver_install fails:         fclose; return false
\*   i2s_set_pin fails:                i2s_driver_uninstall; fclose; return
\*   malloc fails:                     fclose; i2s_driver_uninstall; return
StreamSetup(path, hdr, dev) ==
    LET none == [fopen |-> FALSE, fclose |-> FALSE, install |-> FALSE,
                 uninstall |-> FALSE, loop |-> FALSE]
    IN  IF path = NULL \/ ~access(path) THEN none
        ELSE IF hdr # "ok" \/ dev = "install_failed"
        THEN [none EXCEPT !.fopen = TRUE, !.fclose = TRUE]
        ELSE IF dev \in {"set_pin_failed", "no_mem"}
        THEN [none EXCEPT !.fopen = TRUE, !.fclose = TRUE, !.install = TRUE,
                          !.uninstall = TRUE]
        ELSE [none EXCEPT !.fopen = TRUE, !.install = TRUE, !.loop = TRUE]

\* *stop_flag_ptr of the stream call of task t (a NULL pointer never stops).
StopSet(t) ==
    CASE st[t].stop = "stop_flag" -> stop_flag
      [] st[t].stop = "announce_request" -> announce_request
      [] OTHER -> FALSE

\* *pause_flag_ptr of the stream call of task t.
PauseSet(t) == st[t].pause /\ g_pause

\* The locals of a stream call that is about to open its file.
StreamCall(path, stop, pause, ret) ==
    [path |-> path, pos |-> 0, stop |-> stop, pause |-> pause, ret |-> ret,
     result |-> "none", wr |-> "none", err |-> "none"]

\* The observer after task t left its stream call for label ret.
ObsAfterReturn(t, ret) ==
    IF t = "audio" /\ ret \in {"wait", "poll"} THEN ObsJobEnd ELSE obs

\* The locals after "return false": the audio task's track call leaves the
\* answer to be looked at by the code after the call (which ignores it).
StreamFailed(ret, err) ==
    IF ret = "trk_after"
    THEN [StIdle EXCEPT !.result = "Failed", !.err = err]
    ELSE StIdle

\* fopen, parse_wav_header, i2s_driver_install, i2s_set_pin, malloc.
StreamOpenOf(t, hdr, dev) ==
    /\ pc[t] = "s_open"
    /\ LET setup == StreamSetup(st[t].path, hdr, dev)
           err == IF st[t].path = NULL \/ ~access(st[t].path) THEN "not_found"
                  ELSE IF hdr # "ok" THEN hdr
                  ELSE dev
       IN  /\ files' = files + Held(setup.fopen, setup.fclose)
           /\ i2s' = i2s + Held(setup.install, setup.uninstall)
           /\ IF setup.loop
              THEN /\ pc' = [pc EXCEPT ![t] = "s_check"]
                   /\ UNCHANGED <<st, obs, a>>
              ELSE /\ pc' = [pc EXCEPT ![t] = st[t].ret]
                   /\ st' = [st EXCEPT ![t] = StreamFailed(st[t].ret, err)]
                   /\ obs' = ObsAfterReturn(t, st[t].ret)
                   /\ a' = IF t = "audio" /\ st[t].ret \in {"wait", "poll"}
                           THEN AIdle
                           ELSE a
    /\ UNCHANGED <<variant, card, nav_state, selected_folder, wav_list,
                   current_track, playing_track, g_playing, g_pause,
                   announce_path, announce_request, track_change_request,
                   g_stop_and_rewind, stop_flag, notify, audio_task_handle,
                   hv, g_volume_percent, scale, now, enc_queue,
                   last_step_time, last_sw_time, btn, level, inp, events, fin>>

\* The setup with any answer of the header parser and of the device.
StreamOpen(t) ==
    \E hdr \in HeaderOutcomes, dev \in DeviceOutcomes : StreamOpenOf(t, hdr, dev)

\* Faulty variant of StreamCheck: the stop flag is not looked at.
StreamCheck_NoStop(t) ==
    /\ pc[t] = "s_check"
    /\ ~PauseSet(t)
    /\ pc' = [pc EXCEPT ![t] = "s_io"]
    /\ UNCHANGED <<variant, card, nav_state, selected_folder, wav_list,
                   current_track, playing_track, g_playing, g_pause,
                   announce_path, announce_request, track_change_request,
                   g_stop_and_rewind, stop_flag, notify, audio_task_handle,
                   hv, a, st, i2s, files, g_volume_percent, scale, now,
                   enc_queue, last_step_time, last_sw_time, btn, level, inp,
                   events, obs, fin>>

\* Faulty variant of StreamCheck: the pause flag is tested before the stop
\* flag, so a paused stream sleeps whatever the stop flag says.
StreamCheck_PauseFirst(t) ==
    /\ pc[t] = "s_check"
    /\ ~PauseSet(t)
    /\ IF StopSet(t)
       THEN /\ pc' = [pc EXCEPT ![t] = "s_exit"]
            /\ st' = [st EXCEPT ![t].result = "Aborted"]
       ELSE /\ pc' = [pc EXCEPT ![t] = "s_io"]
            /\ st' = st
    /\ UNCHANGED <<variant, card, nav_state, selected_folder, wav_list,
                   current_track, playing_track, g_playing, g_pause,
                   announce_path, announce_request, track_change_request,
                   g_stop_and_rewind, stop_flag, notify, audio_task_handle,
                   hv, a, i2s, files, g_volume_percent, scale, now, enc_queue,
                   last_step_time, last_sw_time, btn, level, inp, events, obs,
                   fin>>

\* Top of the chunk loop: stop flag first, then pause (a paused stream
\* sleeps and tests again, which changes nothing).
StreamCheck(t) ==
    /\ pc[t] = "s_check"
    /\ IF StopSet(t)
       THEN /\ pc' = [pc EXCEPT ![t] = "s_exit"]
            /\ st' = [st EXCEPT ![t].result = "Aborted"]
       ELSE /\ ~PauseSet(t)
            /\ pc' = [pc EXCEPT ![t] = "s_io"]
            /\ st' = st
    /\ UNCHANGED <<variant, card, nav_state, selected_folder, wav_list,
                   current_track, playing_track, g_playing, g_pause,
                   announce_path, announce_request, track_change_request,
                   g_stop_and_rewind, stop_flag, notify, audio_task_handle,
                   hv, a, i2s, files, g_volume_percent, scale, now, enc_queue,
                   last_step_time, last_sw_time, btn, level, inp, events, obs,
                   fin>>

\* Faulty variant of StreamIO: two chunks are read and written between two
\* tests of the flags.
StreamIO_TwoChunks(t) ==
    /\ pc[t] = "s_io"
    /\ IF st[t].pos = FileLen
       THEN /\ pc' = [pc EXCEPT ![t] = "s_exit"]
            /\ st' = [st EXCEPT ![t].result = "Completed"]
            /\ obs' = obs
       ELSE /\ pc' = [pc EXCEPT ![t] = "s_check"]
            /\ st' = [st EXCEPT ![t].pos =
                        IF st[t].pos + 2 <= FileLen THEN st[t].pos + 2
                                                    ELSE FileLen]
            /\ obs' = IF t = "audio" THEN ObsChunk ELSE obs
    /\ UNCHANGED <<variant, card, nav_state, selected_folder, wav_list,
                   current_track, playing_track, g_playing, g_pause,
                   announce_path, announce_request, track_change_request,
                   g_stop_and_rewind, stop_flag, notify, audio_task_handle,
                   hv, a, i2s, files, g_volume_percent, scale, now, enc_queue,
                   last_step_time, last_sw_time, btn, level, inp, events, fin>>

\* The outcomes of i2s_write: all bytes written; ESP_OK after the timeout
\* with fewer bytes written; an error code.
WriteOutcomes == {"written", "short", "failed"}

\* Faulty variant of StreamIOof: a write that fails ends the stream.
StreamIOof_FailEnds(t, res) ==
    /\ pc[t] = "s_io"
    /\ IF st[t].pos = FileLen
       THEN /\ pc' = [pc EXCEPT ![t] = "s_exit"]
            /\ st' = [st EXCEPT ![t].result = "Completed"]
            /\ obs' = obs
       ELSE IF res = "failed"
       THEN /\ pc' = [pc EXCEPT ![t] = "s_exit"]
            /\ st' = [st EXCEPT ![t].result = "Failed", ![t].wr = res]
            /\ obs' = obs
       ELSE /\ pc' = [pc EXCEPT ![t] = "s_check"]
            /\ st' = [st EXCEPT ![t].pos = st[t].pos + 1, ![t].wr = res]
            /\ obs' = IF t = "audio" THEN ObsChunk ELSE obs
    /\ UNCHANGED <<variant, card, nav_state, selected_folder, wav_list,
                   current_track, playing_track, g_playing, g_pause,
                   announce_path, announce_request, track_change_request,
                   g_stop_and_rewind, stop_flag, notify, audio_task_handle,
                   hv, a, i2s, files, g_volume_percent, scale, now, enc_queue,
                   last_step_time, last_sw_time, btn, level, inp, events, fin>>

\* fread; at end of file leave the loop, else scale and i2s_write the chunk
\* (a failed write is logged and the loop goes on).
\* i2s_write(..., &written, 1000 ms) with outcome res: an error is logged,
\* written is not looked at.
StreamIOof(t, res) ==
    /\ pc[t] = "s_io"
    /\ IF st[t].pos = FileLen
       THEN /\ pc' = [pc EXCEPT ![t] = "s_exit"]
            /\ st' = [st EXCEPT ![t].result = "Completed"]
            /\ obs' = obs
       ELSE /\ pc' = [pc EXCEPT ![t] = "s_check"]
            /\ st' = [st EXCEPT ![t].pos = st[t].pos + 1, ![t].wr = res]
            /\ obs' = IF t = "audio" THEN ObsChunk ELSE obs
    /\ UNCHANGED <<variant, card, nav_state, selected_folder, wav_list,
                   current_track, playing_track, g_playing, g_pause,
                   announce_path, announce_request, track_change_request,
                   g_stop_and_rewind, stop_flag, notify, audio_task_handle,
                   hv, a, i2s, files, g_volume_percent, scale, now, enc_queue,
                   last_step_time, last_sw_time, btn, level, inp, events, fin>>

\* The chunk step with the device taking every byte.
StreamIO(t) == StreamIOof(t, "written")

\* Faulty variant of StreamExit: the driver is not uninstalled on return.
StreamExit_KeepDriver(t) ==
    /\ pc[t] = "s_exit"
    /\ pc' = [pc EXCEPT ![t] = st[t].ret]
    /\ st' = [st EXCEPT ![t] = StIdle]
    /\ i2s' = i2s
    /\ files' = files - 1
    /\ obs' = ObsAfterReturn(t, st[t].ret)
    /\ a' = IF t = "audio" /\ st[t].ret \in {"wait", "poll"}
            THEN AIdle
            ELSE a
    /\ UNCHANGED <<variant, card, nav_state, selected_folder, wav_list,
                   current_track, playing_track, g_playing, g_pause,
                   announce_path, announce_request, track_change_request,
                   g_stop_and_rewind, stop_flag, notify, audio_task_handle,
                   hv, g_volume_percent, scale, now, enc_queue,
                   last_step_time, last_sw_time, btn, level, inp, events, fin>>

\* Leaving the chunk loop:
\* free(buf); fclose(f); i2s_driver_uninstall(I2S_NUM_0); return true
StreamExit(t) ==
    /\ pc[t] = "s_exit"
    /\ pc' = [pc EXCEPT ![t] = st[t].ret]
    /\ st' = [st EXCEPT ![t] = StIdle]
    /\ i2s' = i2s - 1
    /\ files' = files - 1
    /\ obs' = ObsAfterReturn(t, st[t].ret)
    /\ a' = IF t = "audio" /\ st[t].ret \in {"wait", "poll"}
            THEN AIdle
            ELSE a
    /\ UNCHANGED <<variant, card, nav_state, selected_folder, wav_list,
                   current_track, playing_track, g_playing, g_pause,
                   announce_path, announce_request, track_change_request,
                   g_stop_and_rewind, stop_flag, notify, audio_task_handle,
                   hv, g_volume_percent, scale, now, enc_queue,
                   last_step_time, last_sw_time, btn, level, inp, events, fin>>

(* ---------------------------------------------------------------------- *)
(* app_main: boot                                                          *)
(* ---------------------------------------------------------------------- *)

\* The greeting that main streams at a boot label, and the label after it.
BootGreeting(label) ==
    IF label = "boot_welcome"
    THEN [clip |-> WELCOME_WAV, next |-> "boot_home"]
    ELSE [clip |-> HOME_WAV, next |-> "boot_tasks"]

\* welcome.wav, then home.wav, each streamed by main itself (blocking, no
\* stop or pause pointer); noor_v1 has no greetings.
MainBootGreeting ==
    /\ pc["main"] \in {"boot_welcome", "boot_home"}
    /\ LET g == BootGreeting(pc["main"])
       IN  IF variant # "v1" /\ access(make_path(ROOT, g.clip))
           THEN /\ pc' = [pc EXCEPT !["main"] = "s_open"]
                /\ st' = [st EXCEPT !["main"] =
                            StreamCall(make_path(ROOT, g.clip), "none",
                                       FALSE, g.next)]
           ELSE /\ pc' = [pc EXCEPT !["main"] = g.next]
                /\ st' = st
    /\ UNCHANGED <<variant, card, nav_state, selected_folder, wav_list,
                   current_track, playing_track, g_playing, g_pause,
                   announce_path, announce_request, track_change_request,
                   g_stop_and_rewind, stop_flag, notify, audio_task_handle,
                   hv, a, i2s, files, g_volume_percent, scale, now, enc_queue,
                   last_step_time, last_sw_time, btn, level, inp, events, obs,
                   fin>>

\* xTaskCreatePinnedToCore(audio_task), (encoder_task); main enters its loop.
MainCreateTasks ==
    /\ pc["main"] = "boot_tasks"
    /\ audio_task_handle' = TRUE
    /\ pc' = [t \in Tasks |->
                IF t = "audio"
                THEN (IF variant = "rtos" THEN "wait" ELSE "poll")
                ELSE "idle"]
    /\ UNCHANGED <<variant, card, nav_state, selected_folder, wav_list,
                   current_track, playing_track, g_playing, g_pause,
                   announce_path, announce_request, track_change_request,
                   g_stop_and_rewind, stop_flag, notify, hv, a, st, i2s,
                   files, g_volume_percent, scale, now, enc_queue,
                   last_step_time, last_sw_time, btn, level, inp, events, obs,
                   fin>>

(* ---------------------------------------------------------------------- *)
(* audio_task, Noor_RTOS_version                                           *)
(* ---------------------------------------------------------------------- *)

\* xTaskNotifyWait(0, 0xFFFFFFFF, &val, portMAX_DELAY): blocks until a
\* notification is pending, returns the value and clears it.  The announce
\* bit is tested first; a value without it is a track index + 1.
RtosWait ==
    /\ variant = "rtos"
    /\ pc["audio"] = "wait"
    /\ notify # NoNotify
    /\ notify' = NoNotify
    /\ IF notify.ann
       THEN /\ pc' = [pc EXCEPT !["audio"] = "ann_copy"]
            /\ a' = [a EXCEPT !.kind = "ann", !.idx = -1]
       ELSE /\ pc' = [pc EXCEPT !["audio"] = "trk_check"]
            /\ a' = [a EXCEPT !.kind = "trk", !.idx = notify.play - 1]
    /\ UNCHANGED <<variant, card, nav_state, selected_folder, wav_list,
                   current_track, playing_track, g_playing, g_pause,
                   announce_path, announce_request, track_change_request,
                   g_stop_and_rewind, stop_flag, audio_task_handle, hv, st,
                   i2s, files, g_volume_percent, scale, now, enc_queue,
                   last_step_time, last_sw_time, btn, level, inp, events, obs,
                   fin>>

\* strncpy(local_ann, announce_path, ...)
AnnCopy ==
    /\ variant \in {"v2", "rtos"}
    /\ pc["audio"] = "ann_copy"
    /\ a' = [a EXCEPT !.local_ann = announce_path]
    /\ pc' = [pc EXCEPT !["audio"] = "ann_clear"]
    /\ UNCHANGED <<variant, card, nav_state, selected_folder, wav_list,
                   current_track, playing_track, g_playing, g_pause,
                   announce_path, announce_request, track_change_request,
                   g_stop_and_rewind, stop_flag, notify, audio_task_handle,
                   hv, st, i2s, files, g_volume_percent, scale, now,
                   enc_queue, last_step_time, last_sw_time, btn, level, inp,
                   events, obs, fin>>

\* stop_flag = false; stream_file_interruptible(local_ann, &stop_flag, NULL)
RtosAnnClear ==
    /\ variant = "rtos"
    /\ pc["audio"] = "ann_clear"
    /\ stop_flag' = FALSE
    /\ st' = [st EXCEPT !["audio"] =
                StreamCall(a.local_ann, "stop_flag", FALSE, "wait")]
    /\ pc' = [pc EXCEPT !["audio"] = "s_open"]
    /\ UNCHANGED <<variant, card, nav_state, selected_folder, wav_list,
                   current_track, playing_track, g_playing, g_pause,
                   announce_path, announce_request, track_change_request,
                   g_stop_and_rewind, notify, audio_task_handle, hv, a, i2s,
                   files, g_volume_percent, scale, now, enc_queue,
                   last_step_time, last_sw_time, btn, level, inp, events, obs,
                   fin>>

\* if (idx < 0 || idx >= num_tracks) continue;
RtosTrkCheck ==
    /\ variant = "rtos"
    /\ pc["audio"] = "trk_check"
    /\ IF a.idx < 0 \/ a.idx >= num_tracks
       THEN /\ pc' = [pc EXCEPT !["audio"] = "wait"]
            /\ a' = AIdle
            /\ obs' = ObsJobEnd
       ELSE /\ pc' = [pc EXCEPT !["audio"] = "trk_clear"]
            /\ UNCHANGED <<a, obs>>
    /\ UNCHANGED <<variant, card, nav_state, selected_folder, wav_list,
                   current_track, playing_track, g_playing, g_pause,
                   announce_path, announce_request, track_change_request,
                   g_stop_and_rewind, stop_flag, notify, audio_task_handle,
                   hv, st, i2s, files, g_volume_percent, scale, now,
                   enc_queue, last_step_time, last_sw_time, btn, level, inp,
                   events, fin>>

\* stop_flag = false;
RtosTrkClear ==
    /\ variant = "rtos"
    /\ pc["audio"] = "trk_clear"
    /\ stop_flag' = FALSE
    /\ pc' = [pc EXCEPT !["audio"] = "trk_status"]
    /\ UNCHANGED <<variant, card, nav_state, selected_folder, wav_list,
                   current_track, playing_track, g_playing, g_pause,
                   announce_path, announce_request, track_change_request,
                   g_stop_and_rewind, notify, audio_task_handle, hv, a, st,
                   i2s, files, g_volume_percent, scale, now, enc_queue,
                   last_step_time, last_sw_time, btn, level, inp, events, obs,
                   fin>>

\* playing_track = idx; g_playing = true; g_pause = false;
RtosTrkStatus ==
    /\ variant = "rtos"
    /\ pc["audio"] = "trk_status"
    /\ playing_track' = a.idx
    /\ g_playing' = TRUE
    /\ g_pause' = FALSE
    /\ pc' = [pc EXCEPT !["audio"] = "trk_call"]
    /\ UNCHANGED <<variant, card, nav_state, selected_folder, wav_list,
                   current_track, announce_path, announce_request,
                   track_change_request, g_stop_and_rewind, stop_flag, notify,
                   audio_task_handle, hv, a, st, i2s, files, g_volume_percent,
                   scale, now, enc_queue, last_step_time, last_sw_time, btn,
                   level, inp, events, obs, fin>>

\* stream_file_interruptible(wav_list[idx], &stop_flag, &g_pause): the
\* pointer is read here, the file is opened in the next step.
RtosTrkCall ==
    /\ variant = "rtos"
    /\ pc["audio"] = "trk_call"
    /\ st' = [st EXCEPT !["audio"] =
                StreamCall(WavAt(a.idx), "stop_flag", TRUE, "trk_after")]
    /\ pc' = [pc EXCEPT !["audio"] = "s_open"]
    /\ UNCHANGED <<variant, card, nav_state, selected_folder, wav_list,
                   current_track, playing_track, g_playing, g_pause,
                   announce_path, announce_request, track_change_request,
                   g_stop_and_rewind, stop_flag, notify, audio_task_handle,
                   hv, a, i2s, files, g_volume_percent, scale, now, enc_queue,
                   last_step_time, last_sw_time, btn, level, inp, events, obs,
                   fin>>

\* Faulty variant of RtosTrkAfter: the status words are left as they are.
RtosTrkAfter_KeepStatus ==
    /\ variant = "rtos"
    /\ pc["audio"] = "trk_after"
    /\ pc' = [pc EXCEPT !["audio"] = "wait"]
    /\ st' = [st EXCEPT !["audio"] = StIdle]
    /\ a' = AIdle
    /\ obs' = ObsJobEnd
    /\ UNCHANGED <<variant, card, nav_state, selected_folder, wav_list,
                   current_track, playing_track, g_playing, g_pause,
                   announce_path, announce_request, track_change_request,
                   g_stop_and_rewind, stop_flag, notify, audio_task_handle,
                   hv, i2s, files, g_volume_percent, scale, now, enc_queue,
                   last_step_time, last_sw_time, btn, level, inp, events, fin>>

\* Both branches of "if (stop_flag)": g_playing = false; playing_track = -1
RtosTrkAfter ==
    /\ variant = "rtos"
    /\ pc["audio"] = "trk_after"
    /\ g_playing' = FALSE
    /\ playing_track' = -1
    /\ pc' = [pc EXCEPT !["audio"] = "wait"]
    /\ st' = [st EXCEPT !["audio"] = StIdle]
    /\ a' = AIdle
    /\ obs' = ObsJobEnd
    /\ UNCHANGED <<variant, card, nav_state, selected_folder, wav_list,
                   current_track, g_pause, announce_path, announce_request,
                   track_change_request, g_stop_and_rewind, stop_flag, notify,
                   audio_task_handle, hv, i2s, files, g_volume_percent, scale,
                   now, enc_queue, last_step_time, last_sw_time, btn, level,
                   inp, events, fin>>

(* ---------------------------------------------------------------------- *)
(* audio_task, noor_v2                                                     *)
(* ---------------------------------------------------------------------- *)

\* Top of the loop: the announcement flag first, then g_playing; with
\* neither the task sleeps and polls again.
V2Poll ==
    /\ variant = "v2"
    /\ pc["audio"] = "poll"
    /\ IF announce_request
       THEN /\ pc' = [pc EXCEPT !["audio"] = "ann_copy"]
            /\ a' = [a EXCEPT !.kind = "ann", !.idx = -1]
       ELSE /\ g_playing
            /\ pc' = [pc EXCEPT !["audio"] = "trk_nav"]
            /\ a' = [a EXCEPT !.kind = "trk", !.idx = -1]
    /\ UNCHANGED <<variant, card, nav_state, selected_folder, wav_list,
                   current_track, playing_track, g_playing, g_pause,
                   announce_path, announce_request, track_change_request,
                   g_stop_and_rewind, stop_flag, notify, audio_task_handle,
                   hv, st, i2s, files, g_volume_percent, scale, now,
                   enc_queue, last_step_time, last_sw_time, btn, level, inp,
                   events, obs, fin>>

\* announce_request = false;
V2AnnClear ==
    /\ variant = "v2"
    /\ pc["audio"] = "ann_clear"
    /\ announce_request' = FALSE
    /\ pc' = [pc EXCEPT !["audio"] = "ann_status"]
    /\ UNCHANGED <<variant, card, nav_state, selected_folder, wav_list,
                   current_track, playing_track, g_playing, g_pause,
                   announce_path, track_change_request, g_stop_and_rewind,
                   stop_flag, notify, audio_task_handle, hv, a, st, i2s,
                   files, g_volume_percent, scale, now, enc_queue,
                   last_step_time, last_sw_time, btn, level, inp, events, obs,
                   fin>>

\* track_change_request = false; g_playing = false;
\* stream_file_interruptible(local_ann, &announce_request)
V2AnnStatus ==
    /\ variant = "v2"
    /\ pc["audio"] = "ann_status"
    /\ track_change_request' = FALSE
    /\ g_playing' = FALSE
    /\ st' = [st EXCEPT !["audio"] =
                StreamCall(a.local_ann, "announce_request", FALSE, "poll")]
    /\ pc' = [pc EXCEPT !["audio"] = "s_open"]
    /\ UNCHANGED <<variant, card, nav_state, selected_folder, wav_list,
                   current_track, playing_track, g_pause, announce_path,
                   announce_request, g_stop_and_rewind, stop_flag, notify,
                   audio_task_handle, hv, a, i2s, files, g_volume_percent,
                   scale, now, enc_queue, last_step_time, last_sw_time, btn,
                   level, inp, events, obs, fin>>

\* The checks before a track is streamed: NavState, track count, index,
\* entry; then stream_file_interruptible(file_to_play, &announce_request).
V2TrkNav ==
    /\ variant = "v2"
    /\ pc["audio"] = "trk_nav"
    /\ IF nav_state # NAV_FILE_VIEW
       THEN /\ g_playing' = FALSE
            /\ playing_track' = -1
            /\ pc' = [pc EXCEPT !["audio"] = "poll"]
            /\ a' = AIdle
            /\ obs' = ObsJobEnd
            /\ st' = st
       ELSE IF num_tracks = 0
       THEN /\ g_playing' = FALSE
            /\ playing_track' = playing_track
            /\ pc' = [pc EXCEPT !["audio"] = "poll"]
            /\ a' = AIdle
            /\ obs' = ObsJobEnd
            /\ st' = st
       ELSE IF playing_track < 0 \/ playing_track >= num_tracks
       THEN /\ g_playing' = FALSE
            /\ playing_track' = -1
            /\ pc' = [pc EXCEPT !["audio"] = "poll"]
            /\ a' = AIdle
            /\ obs' = ObsJobEnd
            /\ st' = st
       ELSE /\ a' = [a EXCEPT !.idx = playing_track]
            /\ st' = [st EXCEPT !["audio"] =
                        StreamCall(WavAt(playing_track), "announce_request",
                                   FALSE, "trk_after")]
            /\ pc' = [pc EXCEPT !["audio"] = "s_open"]
            /\ UNCHANGED <<g_playing, playing_track, obs>>
    /\ UNCHANGED <<variant, card, nav_state, selected_folder, wav_list,
                   current_track, g_pause, announce_path, announce_request,
                   track_change_request, g_stop_and_rewind, stop_flag, notify,
                   audio_task_handle, hv, i2s, files, g_volume_percent, scale,
                   now, enc_queue, last_step_time, last_sw_time, btn, level,
                   inp, events, fin>>

\* if (announce_request) { g_playing = false; playing_track = -1; }
V2TrkAfter ==
    /\ variant = "v2"
    /\ pc["audio"] = "trk_after"
    /\ IF announce_request
       THEN /\ g_playing' = FALSE
            /\ playing_track' = -1
       ELSE UNCHANGED <<g_playing, playing_track>>
    /\ pc' = [pc EXCEPT !["audio"] = "poll"]
    /\ st' = [st EXCEPT !["audio"] = StIdle]
    /\ a' = AIdle
    /\ obs' = ObsJobEnd
    /\ UNCHANGED <<variant, card, nav_state, selected_folder, wav_list,
                   current_track, g_pause, announce_path, announce_request,
                   track_change_request, g_stop_and_rewind, stop_flag, notify,
                   audio_task_handle, hv, i2s, files, g_volume_percent, scale,
                   now, enc_queue, last_step_time, last_sw_time, btn, level,
                   inp, events, fin>>

(* ---------------------------------------------------------------------- *)
(* audio_task, noor_v1 (the stream is written out in the task)             *)
(* ---------------------------------------------------------------------- *)

\* Top of the loop while g_playing: NavState, track count, index, entry.
V1Poll ==
    /\ variant = "v1"
    /\ pc["audio"] = "poll"
    /\ g_playing
    /\ IF nav_state # NAV_FILE_VIEW
       THEN /\ g_playing' = FALSE
            /\ playing_track' = -1
            /\ UNCHANGED <<pc, a, st>>
       ELSE /\ num_tracks # 0
            /\ IF playing_track < 0 \/ playing_track >= num_tracks
               THEN /\ g_playing' = FALSE
                    /\ playing_track' = -1
                    /\ UNCHANGED <<pc, a, st>>
               ELSE /\ a' = [a EXCEPT !.kind = "trk", !.idx = playing_track]
                    /\ st' = [st EXCEPT !["audio"] =
                                StreamCall(WavAt(playing_track), "none",
                                           TRUE, "poll")]
                    /\ pc' = [pc EXCEPT !["audio"] = "v1_open"]
                    /\ UNCHANGED <<g_playing, playing_track>>
    /\ UNCHANGED <<variant, card, nav_state, selected_folder, wav_list,
                   current_track, g_pause, announce_path, announce_request,
                   track_change_request, g_stop_and_rewind, stop_flag, notify,
                   audio_task_handle, hv, i2s, files, g_volume_percent, scale,
                   now, enc_queue, last_step_time, last_sw_time, btn, level,
                   inp, events, obs, fin>>

\* fopen, parse_wav_header, i2s_driver_install, i2s_set_pin, malloc; every
\* failure sleeps and goes back to the top of the task loop.
V1Open ==
    /\ variant = "v1"
    /\ pc["audio"] = "v1_open"
    /\ \E hdr \in HeaderOutcomes, dev \in DeviceOutcomes :
         LET setup == StreamSetup(st["audio"].path, hdr, dev)
         IN  /\ files' = files + Held(setup.fopen, setup.fclose)
             /\ i2s' = i2s + Held(setup.install, setup.uninstall)
             /\ IF setup.loop
                THEN /\ pc' = [pc EXCEPT !["audio"] = "v1_check"]
                     /\ UNCHANGED <<st, a>>
                ELSE /\ pc' = [pc EXCEPT !["audio"] = "poll"]
                     /\ st' = [st EXCEPT !["audio"] = StIdle]
                     /\ a' = AIdle
    /\ UNCHANGED <<variant, card, nav_state, selected_folder, wav_list,
                   current_track, playing_track, g_playing, g_pause,
                   announce_path, announce_request, track_change_request,
                   g_stop_and_rewind, stop_flag, notify, audio_task_handle,
                   hv, g_volume_percent, scale, now, enc_queue,
                   last_step_time, last_sw_time, btn, level, inp, events, obs,
                   fin>>

\* while (g_playing) { track change -> break; stop-and-rewind -> rewind;
\* pause -> sleep and test again; ... }
V1Check ==
    /\ variant = "v1"
    /\ pc["audio"] = "v1_check"
    /\ IF ~g_playing
       THEN /\ pc' = [pc EXCEPT !["audio"] = "v1_exit"]
            /\ UNCHANGED <<track_change_request, g_stop_and_rewind, st>>
       ELSE IF track_change_request
       THEN /\ track_change_request' = FALSE
            /\ pc' = [pc EXCEPT !["audio"] = "v1_exit"]
            /\ UNCHANGED <<g_stop_and_rewind, st>>
       ELSE /\ g_stop_and_rewind \/ ~g_pause
            /\ g_stop_and_rewind' = FALSE
            /\ st' = IF g_stop_and_rewind
                     THEN [st EXCEPT !["audio"].pos = 0]
                     ELSE st
            /\ pc' = IF g_pause
                     THEN pc
                     ELSE [pc EXCEPT !["audio"] = "v1_io"]
            /\ UNCHANGED track_change_request
    /\ UNCHANGED <<variant, card, nav_state, selected_folder, wav_list,
                   current_track, playing_track, g_playing, g_pause,
                   announce_path, announce_request, stop_flag, notify,
                   audio_task_handle, hv, a, i2s, files, g_volume_percent,
                   scale, now, enc_queue, last_step_time, last_sw_time, btn,
                   level, inp, events, obs, fin>>

\* fread; at end of file rewind and go on, else scale and write the chunk.
V1IOof(res) ==
    /\ variant = "v1"
    /\ pc["audio"] = "v1_io"
    /\ st' = IF st["audio"].pos = FileLen
             THEN [st EXCEPT !["audio"].pos = 0]
             ELSE [st EXCEPT !["audio"].pos = st["audio"].pos + 1,
                             !["audio"].wr = res]
    /\ pc' = [pc EXCEPT !["audio"] = "v1_check"]
    /\ UNCHANGED <<variant, card, nav_state, selected_folder, wav_list,
                   current_track, playing_track, g_playing, g_pause,
                   announce_path, announce_request, track_change_request,
                   g_stop_and_rewind, stop_flag, notify, audio_task_handle,
                   hv, a, i2s, files, g_volume_percent, scale, now, enc_queue,
                   last_step_time, last_sw_time, btn, level, inp, events, obs,
                   fin>>

\* The chunk step with the device taking every byte.
V1IO == V1IOof("written")

\* free(read_buf); fclose(f); i2s_driver_uninstall(I2S_NUM_0);
V1Exit ==
    /\ variant = "v1"
    /\ pc["audio"] = "v1_exit"
    /\ i2s' = i2s - 1
    /\ files' = files - 1
    /\ st' = [st EXCEPT !["audio"] = StIdle]
    /\ a' = AIdle
    /\ pc' = [pc EXCEPT !["audio"] = "poll"]
    /\ UNCHANGED <<variant, card, nav_state, selected_folder, wav_list,
                   current_track, playing_track, g_playing, g_pause,
                   announce_path, announce_request, track_change_request,
                   g_stop_and_rewind, stop_flag, notify, audio_task_handle,
                   hv, g_volume_percent, scale, now, enc_queue,
                   last_step_time, last_sw_time, btn, level, inp, events, obs,
                   fin>>

(* ---------------------------------------------------------------------- *)
(* Input handlers: the button scan of app_main ("main") and encoder_task   *)
(* ("enc").  A rotary-switch press is handled like a PlayPause press.      *)
(* ---------------------------------------------------------------------- *)

\* Handler t takes a new input event; the event may be the last one.
Accept(t) ==
    /\ pc[t] = "idle"
    /\ events < MaxEvents
    /\ events' = events + 1

\* The label after a play request's status words are written.
PlayRequestLabel == IF variant = "rtos" THEN "pr_stop" ELSE "pr_tcr"

\* The announcement clip a variant requests (noor_v1 has no announcements).
ClipFor(clip) == IF variant = "v1" THEN NULL ELSE clip

\* NAV_HOME: if (num_folders > 0) nav_state = NAV_FOLDER_VIEW;
PressInHome(t) ==
    /\ nav_state = NAV_HOME
    /\ num_folders > 0
    /\ nav_state' = NAV_FOLDER_VIEW
    /\ UNCHANGED <<wav_list, current_track, playing_track, g_playing,
                   g_pause, announce_path, pc, hv, obs, fin>>

\* NAV_FOLDER_VIEW: the stories announcement, if any, is requested first;
\* then scan_wavs_in_folder (which starts with free_wav_list).
PressInFolder(t) ==
    /\ nav_state = NAV_FOLDER_VIEW
    /\ num_folders > 0
    /\ LET fp == folder_list[selected_folder + 1]
           clip == ClipFor(StoriesClip(fp))
       IN  IF clip # NULL
           THEN /\ announce_path' = clip
                /\ pc' = [pc EXCEPT ![t] = "ra_flag"]
                /\ hv' = [hv EXCEPT ![t] =
                            [path |-> NULL, cont |-> "scan_free",
                             folder |-> fp]]
                /\ UNCHANGED <<wav_list, current_track>>
           ELSE /\ wav_list' = <<>>
                /\ current_track' = 0
                /\ pc' = [pc EXCEPT ![t] = "scan_fill"]
                /\ hv' = [hv EXCEPT ![t] = [HvIdle EXCEPT !.folder = fp]]
                /\ UNCHANGED announce_path
    /\ UNCHANGED <<nav_state, playing_track, g_playing, g_pause, obs, fin>>

\* NAV_FILE_VIEW, nothing playing: playing_track = current_track;
\* g_playing = true; g_pause = false;  then the play request is sent.
PlayStart(t) ==
    /\ nav_state = NAV_FILE_VIEW
    /\ ~g_playing
    /\ num_tracks > 0
    /\ playing_track' = current_track
    /\ g_playing' = TRUE
    /\ g_pause' = FALSE
    /\ pc' = [pc EXCEPT ![t] = PlayRequestLabel]
    /\ obs' = IF variant = "v2" THEN ObsRaise("play", t) ELSE obs
    /\ fin' = IF /\ events' = MaxEvents
                 /\ OtherIdle(t)
                 /\ ~notify.ann
                 /\ ~announce_request
              THEN current_track
              ELSE fin
    /\ UNCHANGED <<nav_state, wav_list, current_track, announce_path, hv>>

\* Faulty variant of TogglePause: the press also sends a play request.
TogglePause_Restart(t) ==
    /\ nav_state = NAV_FILE_VIEW
    /\ g_playing
    /\ playing_track = current_track
    /\ g_pause' = ~g_pause
    /\ pc' = [pc EXCEPT ![t] = PlayRequestLabel]
    /\ UNCHANGED <<nav_state, wav_list, current_track, playing_track,
                   g_playing, announce_path, hv, obs, fin>>

\* NAV_FILE_VIEW, playing, the selection is the playing track:
\* g_pause = !g_pause;  (the load and the store of g_pause are one step)
TogglePause(t) ==
    /\ nav_state = NAV_FILE_VIEW
    /\ g_playing
    /\ playing_track = current_track
    /\ g_pause' = ~g_pause
    /\ UNCHANGED <<nav_state, wav_list, current_track, playing_track,
                   g_playing, announce_path, pc, hv, obs, fin>>

\* NAV_FILE_VIEW, playing, another track selected:
\* playing_track = current_track; g_pause = false;  then the play request.
PlaySwitch(t) ==
    /\ nav_state = NAV_FILE_VIEW
    /\ g_playing
    /\ playing_track # current_track
    /\ playing_track' = current_track
    /\ g_pause' = FALSE
    /\ pc' = [pc EXCEPT ![t] = PlayRequestLabel]
    /\ obs' = IF variant = "v2" THEN ObsRaise("play", t) ELSE obs
    /\ UNCHANGED <<nav_state, wav_list, current_track, g_playing,
                   announce_path, hv, fin>>

\* The press does nothing: no folder in NAV_HOME or NAV_FOLDER_VIEW, or no
\* track in NAV_FILE_VIEW with nothing playing.
PressNoop(t) ==
    /\ \/ nav_state \in {NAV_HOME, NAV_FOLDER_VIEW} /\ num_folders = 0
       \/ nav_state = NAV_FILE_VIEW /\ ~g_playing /\ num_tracks = 0
    /\ UNCHANGED <<nav_state, wav_list, current_track, playing_track,
                   g_playing, g_pause, announce_path, pc, hv, obs, fin>>

\* A PlayPause press seen by main, or a rotary-switch press seen by enc.
PlayPausePress(t) ==
    /\ Accept(t)
    /\ \/ PressInHome(t)
       \/ PressInFolder(t)
       \/ PlayStart(t)
       \/ TogglePause(t)
       \/ PlaySwitch(t)
       \/ PressNoop(t)
    /\ UNCHANGED <<variant, card, selected_folder, announce_request,
                   track_change_request, g_stop_and_rewind, stop_flag, notify,
                   audio_task_handle, a, st, i2s, files, g_volume_percent,
                   scale, now, enc_queue, last_step_time, last_sw_time, btn,
                   level, inp>>

\* v1, v2: track_change_request = true;
PlayRequestFlag(t) ==
    /\ pc[t] = "pr_tcr"
    /\ track_change_request' = TRUE
    /\ pc' = [pc EXCEPT ![t] = "idle"]
    /\ UNCHANGED <<variant, card, nav_state, selected_folder, wav_list,
                   current_track, playing_track, g_playing, g_pause,
                   announce_path, announce_request, g_stop_and_rewind,
                   stop_flag, notify, audio_task_handle, hv, a, st, i2s,
                   files, g_volume_percent, scale, now, enc_queue,
                   last_step_time, last_sw_time, btn, level, inp, events, obs,
                   fin>>

\* rtos: stop_flag = true;
PlayRequestStop(t) ==
    /\ pc[t] = "pr_stop"
    /\ stop_flag' = TRUE
    /\ pc' = [pc EXCEPT ![t] = "pr_notify"]
    /\ obs' = ObsRaise("play", t)
    /\ UNCHANGED <<variant, card, nav_state, selected_folder, wav_list,
                   current_track, playing_track, g_playing, g_pause,
                   announce_path, announce_request, track_change_request,
                   g_stop_and_rewind, notify, audio_task_handle, hv, a, st,
                   i2s, files, g_volume_percent, scale, now, enc_queue,
                   last_step_time, last_sw_time, btn, level, inp, events, fin>>

\* Faulty variant of PlayRequestNotify: the payload is the index itself, so
\* index 0 notifies nothing.
PlayRequestNotify_NoOffset(t) ==
    /\ pc[t] = "pr_notify"
    /\ notify' = [ann |-> FALSE, play |-> current_track]
    /\ pc' = [pc EXCEPT ![t] = "idle"]
    /\ UNCHANGED <<variant, card, nav_state, selected_folder, wav_list,
                   current_track, playing_track, g_playing, g_pause,
                   announce_path, announce_request, track_change_request,
                   g_stop_and_rewind, stop_flag, audio_task_handle, hv, a, st,
                   i2s, files, g_volume_percent, scale, now, enc_queue,
                   last_step_time, last_sw_time, btn, level, inp, events, obs,
                   fin>>

\* rtos: xTaskNotify(audio_task_handle, current_track + 1,
\*                   eSetValueWithOverwrite): the whole value is replaced.
PlayRequestNotify(t) ==
    /\ pc[t] = "pr_notify"
    /\ notify' = [ann |-> FALSE, play |-> current_track + 1]
    /\ pc' = [pc EXCEPT ![t] = "idle"]
    /\ UNCHANGED <<variant, card, nav_state, selected_folder, wav_list,
                   current_track, playing_track, g_playing, g_pause,
                   announce_path, announce_request, track_change_request,
                   g_stop_and_rewind, stop_flag, audio_task_handle, hv, a, st,
                   i2s, files, g_volume_percent, scale, now, enc_queue,
                   last_step_time, last_sw_time, btn, level, inp, events, obs,
                   fin>>

\* request_announcement: if (!path) return;
\* strncpy(announce_path, path, ...)
RequestPath(t) ==
    /\ pc[t] = "ra_path"
    /\ IF hv[t].path = NULL
       THEN /\ pc' = [pc EXCEPT ![t] = hv[t].cont]
            /\ hv' = [hv EXCEPT ![t].cont = "idle"]
            /\ UNCHANGED announce_path
       ELSE /\ announce_path' = hv[t].path
            /\ hv' = [hv EXCEPT ![t].path = NULL]
            /\ pc' = [pc EXCEPT ![t] = "ra_flag"]
    /\ UNCHANGED <<variant, card, nav_state, selected_folder, wav_list,
                   current_track, playing_track, g_playing, g_pause,
                   announce_request, track_change_request, g_stop_and_rewind,
                   stop_flag, notify, audio_task_handle, a, st, i2s, files,
                   g_volume_percent, scale, now, enc_queue, last_step_time,
                   last_sw_time, btn, level, inp, events, obs, fin>>

\* Faulty variant of RequestFlag: the request also clears the playback status.
RequestFlag_StopsPlayback(t) ==
    /\ pc[t] = "ra_flag"
    /\ IF variant = "rtos"
       THEN /\ stop_flag' = TRUE
            /\ pc' = [pc EXCEPT ![t] = "ra_notify"]
            /\ UNCHANGED <<announce_request, hv>>
       ELSE /\ announce_request' = TRUE
            /\ pc' = [pc EXCEPT ![t] = hv[t].cont]
            /\ hv' = [hv EXCEPT ![t].cont = "idle"]
            /\ UNCHANGED stop_flag
    /\ g_playing' = FALSE
    /\ playing_track' = -1
    /\ obs' = ObsRaise("ann", t)
    /\ UNCHANGED <<variant, card, nav_state, selected_folder, wav_list,
                   current_track, g_pause, announce_path,
                   track_change_request, g_stop_and_rewind, notify,
                   audio_task_handle, a, st, i2s, files, g_volume_percent,
                   scale, now, enc_queue, last_step_time, last_sw_time, btn,
                   level, inp, events, fin>>

\* request_announcement: v2 announce_request = true and return;
\* rtos stop_flag = true.
RequestFlag(t) ==
    /\ pc[t] = "ra_flag"
    /\ IF variant = "rtos"
       THEN /\ stop_flag' = TRUE
            /\ pc' = [pc EXCEPT ![t] = "ra_notify"]
            /\ UNCHANGED <<announce_request, hv>>
       ELSE /\ announce_request' = TRUE
            /\ pc' = [pc EXCEPT ![t] = hv[t].cont]
            /\ hv' = [hv EXCEPT ![t].cont = "idle"]
            /\ UNCHANGED stop_flag
    /\ obs' = ObsRaise("ann", t)
    /\ UNCHANGED <<variant, card, nav_state, selected_folder, wav_list,
                   current_track, playing_track, g_playing, g_pause,
                   announce_path, track_change_request, g_stop_and_rewind,
                   notify, audio_task_handle, a, st, i2s, files,
                   g_volume_percent, scale, now, enc_queue, last_step_time,
                   last_sw_time, btn, level, inp, events, fin>>

\* request_announcement, rtos: xTaskNotify(audio_task_handle,
\* NOTIFY_ANNOUNCE_BIT, eSetBits): the bit is or-ed into the value.
RequestNotify(t) ==
    /\ pc[t] = "ra_notify"
    /\ notify' = [notify EXCEPT !.ann = TRUE]
    /\ pc' = [pc EXCEPT ![t] = hv[t].cont]
    /\ hv' = [hv EXCEPT ![t].cont = "idle"]
    /\ UNCHANGED <<variant, card, nav_state, selected_folder, wav_list,
                   current_track, playing_track, g_playing, g_pause,
                   announce_path, announce_request, track_change_request,
                   g_stop_and_rewind, stop_flag, audio_task_handle, a, st,
                   i2s, files, g_volume_percent, scale, now, enc_queue,
                   last_step_time, last_sw_time, btn, level, inp, events, obs,
                   fin>>

\* free_wav_list: every entry freed, num_tracks = 0; current_track = 0;
free_wav_list(t, next) ==
    /\ wav_list' = <<>>
    /\ current_track' = 0
    /\ pc' = [pc EXCEPT ![t] = next]

\* scan_wavs_in_folder, first half (after a stories announcement).
ScanFree(t) ==
    /\ pc[t] = "scan_free"
    /\ free_wav_list(t, "scan_fill")
    /\ UNCHANGED <<variant, card, nav_state, selected_folder, playing_track,
                   g_playing, g_pause, announce_path, announce_request,
                   track_change_request, g_stop_and_rewind, stop_flag, notify,
                   audio_task_handle, hv, a, st, i2s, files, g_volume_percent,
                   scale, now, enc_queue, last_step_time, last_sw_time, btn,
                   level, inp, events, obs, fin>>

\* scan_wavs_in_folder, second half: the list is filled, num_tracks = found.
ScanFill(t) ==
    /\ pc[t] = "scan_fill"
    /\ wav_list' = scan_wavs_in_folder(hv[t].folder)
    /\ pc' = [pc EXCEPT ![t] = "enter"]
    /\ UNCHANGED <<variant, card, nav_state, selected_folder, current_track,
                   playing_track, g_playing, g_pause, announce_path,
                   announce_request, track_change_request, g_stop_and_rewind,
                   stop_flag, notify, audio_task_handle, hv, a, st, i2s,
                   files, g_volume_percent, scale, now, enc_queue,
                   last_step_time, last_sw_time, btn, level, inp, events, obs,
                   fin>>

\* nav_state = NAV_FILE_VIEW; current_track = 0; playing_track = -1;
\* g_playing = false; g_pause = false;  then the first track's story clip.
EnterFolder(t) ==
    /\ pc[t] = "enter"
    /\ nav_state' = NAV_FILE_VIEW
    /\ current_track' = 0
    /\ playing_track' = -1
    /\ g_playing' = FALSE
    /\ g_pause' = FALSE
    /\ LET clip == IF num_tracks > 0 THEN ClipFor(StoryClip(WavAt(0)))
                   ELSE NULL
       IN  IF clip # NULL
           THEN /\ pc' = [pc EXCEPT ![t] = "ra_path"]
                /\ hv' = [hv EXCEPT ![t] = [HvIdle EXCEPT !.path = clip]]
           ELSE /\ pc' = [pc EXCEPT ![t] = "idle"]
                /\ hv' = [hv EXCEPT ![t] = HvIdle]
    /\ UNCHANGED <<variant, card, selected_folder, wav_list, announce_path,
                   announce_request, track_change_request, g_stop_and_rewind,
                   stop_flag, notify, audio_task_handle, a, st, i2s, files,
                   g_volume_percent, scale, now, enc_queue, last_step_time,
                   last_sw_time, btn, level, inp, events, obs, fin>>

\* Home pressed in NAV_FILE_VIEW while g_playing:
\* g_playing = false; g_pause = false;
HomeStopStatus ==
    /\ nav_state = NAV_FILE_VIEW
    /\ g_playing
    /\ g_playing' = FALSE
    /\ g_pause' = FALSE
    /\ pc' = [pc EXCEPT !["main"] = "home_stop"]
    /\ UNCHANGED <<nav_state, wav_list, current_track, hv>>

\* Home pressed in NAV_FILE_VIEW, not playing: free_wav_list();
HomeLeaveFolder ==
    /\ nav_state = NAV_FILE_VIEW
    /\ ~g_playing
    /\ free_wav_list("main", "home_nav")
    /\ UNCHANGED <<nav_state, g_playing, g_pause, hv>>

\* Faulty variant of HomeLeaveFolders: home.wav is requested without the
\* access test.
HomeLeaveFolders_Unchecked ==
    /\ nav_state = NAV_FOLDER_VIEW
    /\ nav_state' = NAV_HOME
    /\ LET clip == ClipFor(make_path(ROOT, HOME_WAV))
       IN  IF clip # NULL
           THEN /\ pc' = [pc EXCEPT !["main"] = "ra_path"]
                /\ hv' = [hv EXCEPT !["main"] = [HvIdle EXCEPT !.path = clip]]
           ELSE UNCHANGED <<pc, hv>>
    /\ UNCHANGED <<wav_list, current_track, g_playing, g_pause>>

\* Home pressed in NAV_FOLDER_VIEW: nav_state = NAV_HOME; then home.wav is
\* requested if it exists (v2, rtos).
HomeLeaveFolders ==
    /\ nav_state = NAV_FOLDER_VIEW
    /\ nav_state' = NAV_HOME
    /\ LET clip == IF access(make_path(ROOT, HOME_WAV))
                   THEN ClipFor(make_path(ROOT, HOME_WAV))
                   ELSE NULL
       IN  IF clip # NULL
           THEN /\ pc' = [pc EXCEPT !["main"] = "ra_path"]
                /\ hv' = [hv EXCEPT !["main"] = [HvIdle EXCEPT !.path = clip]]
           ELSE UNCHANGED <<pc, hv>>
    /\ UNCHANGED <<wav_list, current_track, g_playing, g_pause>>

\* Home pressed in NAV_HOME: "Already at HOME".
HomeInHome ==
    /\ nav_state = NAV_HOME
    /\ UNCHANGED <<nav_state, wav_list, current_track, g_playing, g_pause,
                   pc, hv>>

\* A Home press seen by main.
HomePress ==
    /\ Accept("main")
    /\ \/ HomeStopStatus
       \/ HomeLeaveFolder
       \/ HomeLeaveFolders
       \/ HomeInHome
    /\ UNCHANGED <<variant, card, selected_folder, playing_track,
                   announce_path, announce_request, track_change_request,
                   g_stop_and_rewind, stop_flag, notify, audio_task_handle, a,
                   st, i2s, files, g_volume_percent, scale, now, enc_queue,
                   last_step_time, last_sw_time, btn, level, inp, obs, fin>>

\* Home in NAV_FILE_VIEW while playing: rtos stop_flag = true;
\* v1, v2 g_stop_and_rewind = true;
HomeStop ==
    /\ pc["main"] = "home_stop"
    /\ IF variant = "rtos"
       THEN /\ stop_flag' = TRUE
            /\ UNCHANGED g_stop_and_rewind
       ELSE /\ g_stop_and_rewind' = TRUE
            /\ UNCHANGED stop_flag
    /\ pc' = [pc EXCEPT !["main"] = "home_free"]
    /\ obs' = ObsRaise("home", "main")
    /\ UNCHANGED <<variant, card, nav_state, selected_folder, wav_list,
                   current_track, playing_track, g_playing, g_pause,
                   announce_path, announce_request, track_change_request,
                   notify, audio_task_handle, hv, a, st, i2s, files,
                   g_volume_percent, scale, now, enc_queue, last_step_time,
                   last_sw_time, btn, level, inp, events, fin>>

\* Home in NAV_FILE_VIEW: free_wav_list();
HomeFree ==
    /\ pc["main"] = "home_free"
    /\ free_wav_list("main", "home_nav")
    /\ UNCHANGED <<variant, card, nav_state, selected_folder, playing_track,
                   g_playing, g_pause, announce_path, announce_request,
                   track_change_request, g_stop_and_rewind, stop_flag, notify,
                   audio_task_handle, hv, a, st, i2s, files, g_volume_percent,
                   scale, now, enc_queue, last_step_time, last_sw_time, btn,
                   level, inp, events, obs, fin>>

\* Home in NAV_FILE_VIEW: nav_state = NAV_FOLDER_VIEW;
HomeNav ==
    /\ pc["main"] = "home_nav"
    /\ nav_state' = NAV_FOLDER_VIEW
    /\ pc' = [pc EXCEPT !["main"] = "idle"]
    /\ UNCHANGED <<variant, card, selected_folder, wav_list, current_track,
                   playing_track, g_playing, g_pause, announce_path,
                   announce_request, track_change_request, g_stop_and_rewind,
                   stop_flag, notify, audio_task_handle, hv, a, st, i2s,
                   files, g_volume_percent, scale, now, enc_queue,
                   last_step_time, last_sw_time, btn, level, inp, events, obs,
                   fin>>

\* Faulty variant of StepIndex: the direction level is ignored.
StepIndex_OneWay(index, dt_level, count) == (index + 1) % count

\* (index + 1) % count for direction level 0, (index - 1 + count) % count
\* for level 1.
StepIndex(index, dt_level, count) ==
    IF dt_level = 0
    THEN (index + 1) % count
    ELSE (index - 1 + count) % count

\* Handler enc goes on to request clip, or is done when there is none.
StepAnnounce(clip) ==
    IF clip # NULL
    THEN /\ pc' = [pc EXCEPT !["enc"] = "ra_path"]
         /\ hv' = [hv EXCEPT !["enc"] = [HvIdle EXCEPT !.path = clip]]
    ELSE UNCHANGED <<pc, hv>>

\* Rotary step in NAV_HOME or NAV_FOLDER_VIEW.
StepFolder(dt_level) ==
    /\ nav_state \in {NAV_HOME, NAV_FOLDER_VIEW}
    /\ num_folders > 0
    /\ selected_folder' = StepIndex(selected_folder, dt_level, num_folders)
    /\ StepAnnounce(ClipFor(StoriesClip(folder_list[selected_folder' + 1])))
    /\ UNCHANGED current_track

\* Rotary step in NAV_FILE_VIEW.
StepTrack(dt_level) ==
    /\ nav_state = NAV_FILE_VIEW
    /\ num_tracks > 0
    /\ current_track' = StepIndex(current_track, dt_level, num_tracks)
    /\ StepAnnounce(ClipFor(StoryClip(wav_list[current_track' + 1])))
    /\ UNCHANGED selected_folder

\* The step does nothing: the list of the view is empty.
StepNoop ==
    /\ \/ nav_state \in {NAV_HOME, NAV_FOLDER_VIEW} /\ num_folders = 0
       \/ nav_state = NAV_FILE_VIEW /\ num_tracks = 0
    /\ UNCHANGED <<selected_folder, current_track, pc, hv>>

\* A rotary step with direction level dt_level seen by enc.
RotaryStepOf(dt_level) ==
    /\ Accept("enc")
    /\ \/ StepFolder(dt_level)
       \/ StepTrack(dt_level)
       \/ StepNoop
    /\ UNCHANGED <<variant, card, nav_state, wav_list, playing_track,
                   g_playing, g_pause, announce_path, announce_request,
                   track_change_request, g_stop_and_rewind, stop_flag, notify,
                   audio_task_handle, a, st, i2s, files, g_volume_percent,
                   scale, now, enc_queue, last_step_time, last_sw_time, btn,
                   level, inp, obs, fin>>

\* A rotary step seen by enc.
RotaryStep == \E dt_level \in {0, 1} : RotaryStepOf(dt_level)

(* ---------------------------------------------------------------------- *)
(* Specification                                                           *)
(* ---------------------------------------------------------------------- *)

\* Handler steps that every variant has.
HandlerNext ==
    \/ \E t \in Handlers : PlayPausePress(t)
    \/ \E t \in Handlers : ScanFree(t)
    \/ \E t \in Handlers : ScanFill(t)
    \/ \E t \in Handlers : EnterFolder(t)
    \/ HomePress
    \/ HomeStop
    \/ HomeFree
    \/ HomeNav
    \/ RotaryStep

\* request_announcement (v2, rtos).
RequestNext ==
    \/ \E t \in Handlers : RequestPath(t)
    \/ \E t \in Handlers : RequestFlag(t)

\* Handler steps of noor_v1 and noor_v2 only.
FlagHandlerNext ==
    \E t \in Handlers : PlayRequestFlag(t)

\* Handler steps of Noor_RTOS_version only.
RtosHandlerNext ==
    \/ \E t \in Handlers : PlayRequestStop(t)
    \/ \E t \in Handlers : PlayRequestNotify(t)
    \/ \E t \in Handlers : RequestNotify(t)

\* stream_file_interruptible called by the audio task, and the copy of the
\* announcement path (v2, rtos).
AudioStreamNext ==
    \/ StreamOpen("audio")
    \/ StreamCheck("audio")
    \/ StreamIO("audio")
    \/ StreamExit("audio")
    \/ AnnCopy

RtosAudioNext ==
    \/ RtosWait
    \/ RtosAnnClear
    \/ RtosTrkCheck
    \/ RtosTrkClear
    \/ RtosTrkStatus
    \/ RtosTrkCall
    \/ RtosTrkAfter

V2AudioNext ==
    \/ V2Poll
    \/ V2AnnClear
    \/ V2AnnStatus
    \/ V2TrkNav
    \/ V2TrkAfter

V1AudioNext ==
    \/ V1Poll
    \/ V1Open
    \/ V1Check
    \/ V1IO
    \/ V1Exit

BootNext ==
    \/ MainBootGreeting
    \/ StreamOpen("main")
    \/ StreamCheck("main")
    \/ StreamIO("main")
    \/ StreamExit("main")
    \/ MainCreateTasks

\* The three variants.
Next ==
    \/ BootNext
    \/ HandlerNext
    \/ RequestNext
    \/ FlagHandlerNext
    \/ RtosHandlerNext
    \/ AudioStreamNext
    \/ RtosAudioNext
    \/ V2AudioNext
    \/ V1AudioNext

Spec == Init /\ [][Next]_vars

\* The three variants on the other cards.
Cards == {AltCard, BareCard, NoCard}

NavInit ==
    /\ variant \in Variants
    /\ card \in Cards
    /\ PowerOn

NavSpec == NavInit /\ [][Next]_vars

\* The input handlers alone, on every card, from the end of the boot: the
\* audio task is created and waits (it is not scheduled in these runs).
AllCards == Cards \cup {StdCard}

HandlerInit ==
    /\ variant \in Variants
    /\ card \in AllCards
    /\ Booted([t \in Tasks |->
                 IF t = "audio"
                 THEN (IF variant = "rtos" THEN "wait" ELSE "poll")
                 ELSE "idle"])

HandlerOnlyNext ==
    \/ HandlerNext
    \/ RequestNext
    \/ FlagHandlerNext
    \/ RtosHandlerNext

HandlerSpec == HandlerInit /\ [][HandlerOnlyNext]_vars

\* Noor_RTOS_version alone.
RtosInit == Init /\ variant = "rtos"

RtosNext ==
    \/ BootNext
    \/ HandlerNext
    \/ RequestNext
    \/ RtosHandlerNext
    \/ AudioStreamNext
    \/ RtosAudioNext

\* The steps of handler t after it has accepted an event.
HandlerStep(t) ==
    \/ PlayRequestFlag(t)
    \/ PlayRequestStop(t)
    \/ PlayRequestNotify(t)
    \/ RequestPath(t)
    \/ RequestFlag(t)
    \/ RequestNotify(t)
    \/ ScanFree(t)
    \/ ScanFill(t)
    \/ EnterFolder(t)
    \/ t = "main" /\ (HomeStop \/ HomeFree \/ HomeNav)

\* The audio task of any variant.
AudioNext == AudioStreamNext \/ RtosAudioNext \/ V2AudioNext \/ V1AudioNext

\* The three variants with their scheduling: every created task is
\* scheduled again and again (each one blocks in a delay, a queue receive or
\* a notification wait between its steps); no input event is ever required
\* to arrive.
FairSpec ==
    /\ Spec
    /\ WF_vars(AudioNext)
    /\ \A t \in Handlers : WF_vars(HandlerStep(t))

\* Noor_RTOS_version with its scheduling.
RtosFairSpec ==
    /\ RtosInit
    /\ [][RtosNext]_vars
    /\ WF_vars(AudioStreamNext \/ RtosAudioNext)
    /\ \A t \in Handlers : WF_vars(HandlerStep(t))

(* ---------------------------------------------------------------------- *)
(* Volume: the Vol+ / Vol- buttons of app_main against the scaling code    *)
(* of a stream in progress.  g_volume_percent is a volatile int, so the    *)
(* addition and the clamp are separate stores that the audio task can      *)
(* read between.                                                           *)
(* ---------------------------------------------------------------------- *)

\* The 16-bit samples used for the scaling.
Samples == {-32768, -32767, -16385, -199, -1, 0, 1, 199, 16383, 16384, 32767}

\* (int32_t) of a mathematical integer below 2^32 in magnitude: two's
\* complement wrap-around (2^32 is written as 2147483647 + 2147483647 + 2).
int32(x) ==
    IF x > 2147483647 THEN x - 2147483647 - 2147483647 - 2
    ELSE IF x < -2147483647 - 1 THEN x + 2147483647 + 2147483647 + 2
    ELSE x

\* (int16_t) of a mathematical integer.
int16(x) == ((x + 32768) % 65536) - 32768

\* C integer division: the quotient is truncated toward zero.
c_div(x, y) == IF x >= 0 THEN x \div y ELSE -((-x) \div y)

\* Faulty variant of clip16: values above 32767 are not clamped.
clip16_NoUpperClamp(x) ==
    IF x < -32768 THEN -32768 ELSE int16(x)

\* clip16
clip16(x) ==
    IF x > 32767 THEN 32767
    ELSE IF x < -32768 THEN -32768
    ELSE int16(x)

\* int32_t scaled = ((int32_t)samps[i] * vol) / 100; samps[i] = clip16(scaled)
Scaled(s, vol) == clip16(c_div(int32(s * vol), 100))

\* The sample written for sample s: the scaling is skipped when the volume
\* read by the test is 100.
WrittenSample(s, chk, vol) == IF chk # 100 THEN Scaled(s, vol) ELSE s

\* The stream call of the track that the audio task is streaming.
TrackCall ==
    CASE variant = "rtos" -> StreamCall(WavAt(0), "stop_flag", TRUE, "trk_after")
      [] variant = "v2" ->
           StreamCall(WavAt(0), "announce_request", FALSE, "trk_after")
      [] OTHER -> StreamCall(WavAt(0), "none", TRUE, "poll")

\* A state of the player after boot: the default folder was entered (the
\* announcement of its first track was requested and has been streamed), a PlayPause press has
\* started track 0 and the audio task has read the first chunk of the track
\* (scale.s is a sample of that chunk).
TrackTaken(at, call, held) ==
    /\ variant \in Variants
    /\ card = StdCard
    /\ nav_state = NAV_FILE_VIEW
    /\ selected_folder = DefaultFolder
    /\ wav_list = scan_wavs_in_folder(folder_list[DefaultFolder + 1])
    /\ current_track = 0
    /\ playing_track = 0
    /\ g_playing = TRUE
    /\ g_pause = FALSE
    /\ announce_path = ClipFor(StoryClip(wav_list[1]))
    /\ announce_request = FALSE
    /\ track_change_request = (variant \in {"v1", "v2"})
    /\ g_stop_and_rewind = FALSE
    /\ stop_flag = FALSE
    /\ notify = NoNotify
    /\ audio_task_handle = TRUE
    /\ pc = [t \in Tasks |-> IF t = "audio" THEN at ELSE "idle"]
    /\ hv = [t \in Handlers |-> HvIdle]
    /\ a = [kind |-> "trk", idx |-> 0, local_ann |-> NULL]
    /\ st = [t \in Streamers |-> IF t = "audio" THEN call ELSE StIdle]
    /\ i2s = held
    /\ files = held
    /\ events = 3
    /\ obs = ObsIdle
    /\ fin = -1

\* The same with the audio task in the chunk loop of the track, the file
\* open and the driver installed.
TrackPlaying ==
    TrackTaken(IF variant = "v1" THEN "v1_io" ELSE "s_io", TrackCall, 1)

VolumeInit ==
    /\ TrackPlaying
    /\ g_volume_percent = 100
    /\ InputIdle
    /\ \E s \in {-32768, 32767} :
         scale = [ScaleIdle EXCEPT !.pc = "test", !.s = s, !.out = s]

\* read_button_press(&btn_volp): g_volume_percent += 10;
VolUpAdd ==
    /\ pc["main"] = "idle"
    /\ g_volume_percent' = g_volume_percent + 10
    /\ pc' = [pc EXCEPT !["main"] = "volp_clamp"]
    /\ UNCHANGED <<variant, card, nav_state, selected_folder, wav_list,
                   current_track, playing_track, g_playing, g_pause,
                   announce_path, announce_request, track_change_request,
                   g_stop_and_rewind, stop_flag, notify, audio_task_handle,
                   hv, a, st, i2s, files, scale, now, enc_queue,
                   last_step_time, last_sw_time, btn, level, inp, events, obs,
                   fin>>

\* if (g_volume_percent > 200) g_volume_percent = 200;
VolUpClamp ==
    /\ pc["main"] = "volp_clamp"
    /\ g_volume_percent' = IF g_volume_percent > 200 THEN 200
                                                     ELSE g_volume_percent
    /\ pc' = [pc EXCEPT !["main"] = "idle"]
    /\ UNCHANGED <<variant, card, nav_state, selected_folder, wav_list,
                   current_track, playing_track, g_playing, g_pause,
                   announce_path, announce_request, track_change_request,
                   g_stop_and_rewind, stop_flag, notify, audio_task_handle,
                   hv, a, st, i2s, files, scale, now, enc_queue,
                   last_step_time, last_sw_time, btn, level, inp, events, obs,
                   fin>>

\* read_button_press(&btn_volm): g_volume_percent -= 10;
VolDownSub ==
    /\ pc["main"] = "idle"
    /\ g_volume_percent' = g_volume_percent - 10
    /\ pc' = [pc EXCEPT !["main"] = "volm_clamp"]
    /\ UNCHANGED <<variant, card, nav_state, selected_folder, wav_list,
                   current_track, playing_track, g_playing, g_pause,
                   announce_path, announce_request, track_change_request,
                   g_stop_and_rewind, stop_flag, notify, audio_task_handle,
                   hv, a, st, i2s, files, scale, now, enc_queue,
                   last_step_time, last_sw_time, btn, level, inp, events, obs,
                   fin>>

\* if (g_volume_percent < 0) g_volume_percent = 0;
VolDownClamp ==
    /\ pc["main"] = "volm_clamp"
    /\ g_volume_percent' = IF g_volume_percent < 0 THEN 0
                                                   ELSE g_volume_percent
    /\ pc' = [pc EXCEPT !["main"] = "idle"]
    /\ UNCHANGED <<variant, card, nav_state, selected_folder, wav_list,
                   current_track, playing_track, g_playing, g_pause,
                   announce_path, announce_request, track_change_request,
                   g_stop_and_rewind, stop_flag, notify, audio_task_handle,
                   hv, a, st, i2s, files, scale, now, enc_queue,
                   last_step_time, last_sw_time, btn, level, inp, events, obs,
                   fin>>

\* if (g_volume_percent != 100): with 100 the chunk is written as read and
\* the next chunk is tested.
ScaleTest ==
    /\ scale.pc = "test"
    /\ scale' = [scale EXCEPT
                   !.chk = g_volume_percent,
                   !.out = IF g_volume_percent = 100 THEN scale.s ELSE @,
                   !.pc = IF g_volume_percent = 100 THEN "test" ELSE "mul"]
    /\ UNCHANGED <<variant, card, nav_state, selected_folder, wav_list,
                   current_track, playing_track, g_playing, g_pause,
                   announce_path, announce_request, track_change_request,
                   g_stop_and_rewind, stop_flag, notify, audio_task_handle,
                   pc, hv, a, st, i2s, files, g_volume_percent, now,
                   enc_queue, last_step_time, last_sw_time, btn, level, inp,
                   events, obs, fin>>

\* rtos: int vol = g_volume_percent, then the multiplication by vol;
\* v1, v2: the multiplication reads g_volume_percent itself.
ScaleMul ==
    /\ scale.pc = "mul"
    /\ scale' = [scale EXCEPT
                   !.vol = g_volume_percent,
                   !.out = WrittenSample(scale.s, scale.chk, g_volume_percent),
                   !.pc = "test"]
    /\ UNCHANGED <<variant, card, nav_state, selected_folder, wav_list,
                   current_track, playing_track, g_playing, g_pause,
                   announce_path, announce_request, track_change_request,
                   g_stop_and_rewind, stop_flag, notify, audio_task_handle,
                   pc, hv, a, st, i2s, files, g_volume_percent, now,
                   enc_queue, last_step_time, last_sw_time, btn, level, inp,
                   events, obs, fin>>

VolumeNext ==
    \/ VolUpAdd
    \/ VolUpClamp
    \/ VolDownSub
    \/ VolDownClamp
    \/ ScaleTest
    \/ ScaleMul

VolumeSpec == VolumeInit /\ [][VolumeNext]_vars

\* The volumes of the scaling claim.
Volumes == 0..200

\* The scaling code alone: a chunk sample and a volume are drawn, no volume
\* button is pressed while the chunk is scaled.
ScaleInit ==
    /\ TrackPlaying
    /\ g_volume_percent \in Volumes
    /\ InputIdle
    /\ \E s \in Samples :
         scale = [ScaleIdle EXCEPT !.pc = "test", !.s = s, !.out = s]

ScaleNext ==
    \/ ScaleTest
    \/ ScaleMul

ScaleSpec == ScaleInit /\ [][ScaleNext]_vars

(* ---------------------------------------------------------------------- *)
(* Input sources: the encoder ISRs, the encoder queue, the debounce of     *)
(* encoder_task and read_button_press.  What an accepted event does to     *)
(* the player is RotaryStep, PlayPausePress and HomePress above; here the  *)
(* acceptance is recorded.  The tick differences stay far below 2^32, so   *)
(* the uint32_t subtractions do not wrap.                                  *)
(* ---------------------------------------------------------------------- *)

DEBOUNCE_MS == 50

ENC_STEP_DEBOUNCE_MS == 60

ENC_QUEUE_LEN == 16

\* The tick period (ESP-IDF default tick rate, 100 Hz).
portTICK_PERIOD_MS == 10

\* The budget of environment edges that inp.left[kind] counts down.
Spend(kind) ==
    [inp EXCEPT !.left[kind] = @ - 1, !.left.all = @ - 1]

CanSpend(kind) == inp.left[kind] > 0 /\ inp.left.all > 0

\* Faulty variant of xQueueSendFromISR: a full queue drops its oldest event.
xQueueSendFromISR_Overwrite(q, ev) ==
    IF Len(q) < ENC_QUEUE_LEN THEN Append(q, ev) ELSE Append(Tail(q), ev)

\* xQueueSendFromISR(enc_queue, &ev, &hp): the event is copied to the back
\* of the queue; with the queue full the call returns errQUEUE_FULL at once
\* (the ISRs ignore the result).
xQueueSendFromISR(q, ev) ==
    IF Len(q) < ENC_QUEUE_LEN THEN Append(q, ev) ELSE q

\* An ISR sends the event of an edge that happens now.
IsrSend(kind, type, dt_level) ==
    /\ CanSpend(kind)
    /\ LET ev == [type |-> type, dt_level |-> dt_level, at |-> now,
                  seq |-> inp.sent + 1]
           queued == Len(enc_queue) < ENC_QUEUE_LEN
       IN  /\ enc_queue' = xQueueSendFromISR(enc_queue, ev)
           /\ inp' = [Spend(kind) EXCEPT
                        !.sent = IF queued THEN @ + 1 ELSE @,
                        !.dropped = IF queued THEN @ ELSE @ + 1]

\* gpio_isr_clk_handler: dt_level = gpio_get_level(ENC_DT_PIN), 0 for a
\* clockwise step.
ClkEdge(dt_level) ==
    /\ IsrSend(IF dt_level = 0 THEN "cw" ELSE "ccw", "CLK", dt_level)
    /\ UNCHANGED <<variant, card, nav_state, selected_folder, wav_list,
                   current_track, playing_track, g_playing, g_pause,
                   announce_path, announce_request, track_change_request,
                   g_stop_and_rewind, stop_flag, notify, audio_task_handle,
                   pc, hv, a, st, i2s, files, g_volume_percent, scale, now,
                   last_step_time, last_sw_time, btn, level, events, obs, fin>>

\* gpio_isr_sw_handler
SwEdge ==
    /\ IsrSend("sw", "SW", 0)
    /\ UNCHANGED <<variant, card, nav_state, selected_folder, wav_list,
                   current_track, playing_track, g_playing, g_pause,
                   announce_path, announce_request, track_change_request,
                   g_stop_and_rewind, stop_flag, notify, audio_task_handle,
                   pc, hv, a, st, i2s, files, g_volume_percent, scale, now,
                   last_step_time, last_sw_time, btn, level, events, obs, fin>>

\* The verdict of a debounce test on an edge of source src that happened at
\* time at.
Verdict(src, at, ok) ==
    [inp EXCEPT !.seen = [src |-> src, at |-> at, prev |-> inp.acc[src],
                          ok |-> ok],
                !.acc[src] = IF ok THEN at ELSE @]

\* encoder_task: xQueueReceive takes the event at the front; now is read;
\* a step is dropped if now - last_step_time < ENC_STEP_DEBOUNCE_MS, a
\* switch press if now - last_sw_time < DEBOUNCE_MS; else the time is
\* stored and the event is acted on.
EncReceive ==
    /\ enc_queue # <<>>
    /\ LET ev == Head(enc_queue)
           ok == IF ev.type = "CLK"
                 THEN ~(now - last_step_time < ENC_STEP_DEBOUNCE_MS)
                 ELSE ~(now - last_sw_time < DEBOUNCE_MS)
       IN  /\ enc_queue' = Tail(enc_queue)
           /\ last_step_time' = IF ev.type = "CLK" /\ ok THEN now
                                                       ELSE last_step_time
           /\ last_sw_time' = IF ev.type = "SW" /\ ok THEN now
                                                     ELSE last_sw_time
           /\ inp' = [Verdict(ev.type, ev.at, ok) EXCEPT !.recv = ev.seq]
    /\ UNCHANGED <<variant, card, nav_state, selected_folder, wav_list,
                   current_track, playing_track, g_playing, g_pause,
                   announce_path, announce_request, track_change_request,
                   g_stop_and_rewind, stop_flag, notify, audio_task_handle,
                   pc, hv, a, st, i2s, files, g_volume_percent, scale, now,
                   btn, level, events, obs, fin>>

\* A button is pressed or released.
ButtonChange(b) ==
    /\ CanSpend("btn")
    /\ level' = [level EXCEPT ![b] = ~@]
    /\ inp' = Spend("btn")
    /\ UNCHANGED <<variant, card, nav_state, selected_folder, wav_list,
                   current_track, playing_track, g_playing, g_pause,
                   announce_path, announce_request, track_change_request,
                   g_stop_and_rewind, stop_flag, notify, audio_task_handle,
                   pc, hv, a, st, i2s, files, g_volume_percent, scale, now,
                   enc_queue, last_step_time, last_sw_time, btn, events, obs,
                   fin>>

\* read_button_press(b), called by the scan of app_main: a rising edge is
\* accepted if t - b->last_time > DEBOUNCE_MS; in every other case only
\* last_state follows the level.
ButtonScan(b) ==
    /\ LET lvl == level[b]
           t == now
           rising == lvl /\ ~btn[b].last_state
           ok == rising /\ t - btn[b].last_time > DEBOUNCE_MS
       IN  /\ btn' = [btn EXCEPT ![b] =
                        [last_time |-> IF ok THEN t ELSE @.last_time,
                         last_state |-> lvl]]
           /\ inp' = IF rising THEN Verdict(b, t, ok) ELSE inp
    /\ UNCHANGED <<variant, card, nav_state, selected_folder, wav_list,
                   current_track, playing_track, g_playing, g_pause,
                   announce_path, announce_request, track_change_request,
                   g_stop_and_rewind, stop_flag, notify, audio_task_handle,
                   pc, hv, a, st, i2s, files, g_volume_percent, scale, now,
                   enc_queue, last_step_time, last_sw_time, level, events,
                   obs, fin>>

\* The tick interrupt.
Tick ==
    /\ now + portTICK_PERIOD_MS <= MaxTime
    /\ now' = now + portTICK_PERIOD_MS
    /\ UNCHANGED <<variant, card, nav_state, selected_folder, wav_list,
                   current_track, playing_track, g_playing, g_pause,
                   announce_path, announce_request, track_change_request,
                   g_stop_and_rewind, stop_flag, notify, audio_task_handle,
                   pc, hv, a, st, i2s, files, g_volume_percent, scale,
                   enc_queue, last_step_time, last_sw_time, btn, level, inp,
                   events, obs, fin>>

\* The debounce of all sources over MaxTime ms, with MaxInputs edges.
InputInit ==
    /\ TrackPlaying
    /\ variant = "rtos"
    /\ g_volume_percent = 100
    /\ scale = ScaleIdle
    /\ now = 0
    /\ enc_queue = <<>>
    /\ last_step_time = 0
    /\ last_sw_time = 0
    /\ btn = [b \in Buttons |-> BtnIdle]
    /\ level = [b \in Buttons |-> FALSE]
    /\ inp = [InpIdle EXCEPT
                !.left = [cw |-> MaxInputs, ccw |-> MaxInputs,
                          sw |-> MaxInputs, btn |-> MaxInputs,
                          all |-> MaxInputs]]

\* The rotary steps: the CLK ISR, the queue, encoder_task and the clock.
StepNext ==
    \/ \E dt_level \in {0, 1} : ClkEdge(dt_level)
    \/ EncReceive
    \/ Tick

StepSpec == InputInit /\ [][StepNext]_vars

\* The presses: the switch ISR, the queue, encoder_task, the four buttons,
\* their scan and the clock.
PressNext ==
    \/ SwEdge
    \/ EncReceive
    \/ \E b \in Buttons : ButtonChange(b)
    \/ \E b \in Buttons : ButtonScan(b)
    \/ Tick

PressSpec == InputInit /\ [][PressNext]_vars

\* The queue alone, within one tick: more clockwise steps than the queue
\* holds, with one counter-clockwise step and one switch press among them.
QueueInit ==
    /\ TrackPlaying
    /\ variant = "rtos"
    /\ g_volume_percent = 100
    /\ scale = ScaleIdle
    /\ now = 0
    /\ enc_queue = <<>>
    /\ last_step_time = 0
    /\ last_sw_time = 0
    /\ btn = [b \in Buttons |-> BtnIdle]
    /\ level = [b \in Buttons |-> FALSE]
    /\ inp = [InpIdle EXCEPT
                !.left = [cw |-> ENC_QUEUE_LEN + 1, ccw |-> 1, sw |-> 1,
                          btn |-> 0, all |-> ENC_QUEUE_LEN + 3]]

QueueNext ==
    \/ \E dt_level \in {0, 1} : ClkEdge(dt_level)
    \/ SwEdge
    \/ EncReceive

QueueSpec == QueueInit /\ [][QueueNext]_vars

(* ---------------------------------------------------------------------- *)
(* Properties                                                              *)
(* ---------------------------------------------------------------------- *)

\* The tasks that are inside a stream call with the I2S driver installed.
Holders ==
    {t \in Streamers :
        pc[t] \in {"s_check", "s_io", "s_exit", "v1_check", "v1_io", "v1_exit"}}

\* The labels of main before the audio task and encoder task are created.
BootLabels ==
    {"boot_welcome", "boot_home", "boot_tasks", "s_open", "s_check", "s_io",
     "s_exit"}

\* C1: in every variant at most one stream holds the audio output: the I2S
\* driver is installed by at most one stream call at a time (every install
\* belongs to a task inside its stream, so a new stream is configured only
\* when the previous one has released the device), and the boot greetings
\* have returned before the audio task exists and can start a stream.
C1_OneStreamAtATime ==
    /\ i2s <= 1
    /\ i2s = Cardinality(Holders)
    /\ audio_task_handle => pc["main"] \notin BootLabels
    /\ ~audio_task_handle => pc["audio"] = "none" /\ st["audio"] = StIdle

\* C1 witness: after boot the audio task streams a track and holds the
\* device alone.
C1_Witness ==
    /\ audio_task_handle
    /\ a.kind = "trk"
    /\ pc["audio"] = "s_io"
    /\ st["audio"].pos = 1
    /\ i2s = 1

\* An announcement request has been raised and the audio task has not taken
\* it yet (v2: the pending flag; rtos: the announce bit of the notification).
AnnouncementPending ==
    IF variant = "rtos" THEN notify.ann ELSE announce_request

\* C2 as stated: in v2 and rtos, when an announcement request is raised
\* while a track is streaming, the track's stream call returns Aborted.
C2_TrackReturnsAborted ==
    (/\ variant \in {"v2", "rtos"}
     /\ a.kind = "trk"
     /\ pc["audio"] = "s_exit"
     /\ obs.ann >= 0)
        => st["audio"].result = "Aborted"

\* C2 amended: in v2 and rtos, when an announcement request is raised while
\* a track is streaming, the stop flag of the track's stream call stays set
\* until the call returns, at most one more chunk is written, and the call
\* returns Aborted at its next chunk check, or Completed when the read after
\* the check it had already passed hits end of file.
C2_TrackStopsWithinOneChunk ==
    (/\ variant \in {"v2", "rtos"}
     /\ a.kind = "trk"
     /\ obs.ann >= 0)
        => /\ obs.ann <= 1
           /\ InLoop => StopSet("audio")
           /\ pc["audio"] = "s_exit" =>
                \/ st["audio"].result = "Aborted"
                \/ /\ st["audio"].result = "Completed"
                   /\ st["audio"].pos = FileLen
                   /\ obs.ann = 0

\* C2 witness: a track's stream call returns Aborted after an announcement
\* request was raised between a chunk check and its write.
C2_Witness ==
    /\ variant \in {"v2", "rtos"}
    /\ a.kind = "trk"
    /\ pc["audio"] = "s_exit"
    /\ obs.ann = 1
    /\ st["audio"].result = "Aborted"

\* C3: in v2 and rtos, no track stream call is begun at a moment when an
\* announcement request has been raised and not yet taken by the audio task.
C3_NoTrackWhileAnnouncementPending ==
    [][(/\ variant \in {"v2", "rtos"}
        /\ pc["audio"] # "s_open"
        /\ pc'["audio"] = "s_open"
        /\ a'.kind = "trk")
           => ~AnnouncementPending]_vars

\* C4: in v2, once requests have stopped arriving, a clip that the audio
\* task is about to stream with no request pending is the most recently
\* requested one (the newest request is not lost).
C4_NewestRequestNotLost ==
    (/\ variant = "v2"
     /\ quiet
     /\ \A t \in Handlers : pc[t] = "idle"
     /\ pc["audio"] = "ann_status"
     /\ ~announce_request)
        => a.local_ann = announce_path

\* C5: in v2 and rtos, a newer announcement request raised after the audio
\* task has taken an older one aborts the older announcement's stream at its
\* next chunk check: at most one more chunk of the older clip is written.
C5_NewerAnnouncementAbortsOlder ==
    (/\ variant \in {"v2", "rtos"}
     /\ a.kind = "ann"
     /\ obs.ann >= 0)
        => obs.ann <= 1

PressStep == \E t \in Handlers : PlayPausePress(t)

\* C7: in v2 and rtos, a PlayPause or rotary-switch press in TrackList while
\* a track is playing and the selection is the playing index flips g_pause
\* and changes nothing else: no request is sent, no task moves, no stream
\* call is started or restarted.
C7_SameTrackPressOnlyTogglesPause ==
    [][(/\ variant \in {"v2", "rtos"}
        /\ PressStep
        /\ nav_state = NAV_FILE_VIEW
        /\ g_playing
        /\ playing_track = current_track)
           => /\ g_pause' = ~g_pause
              /\ UNCHANGED <<variant, nav_state, selected_folder, wav_list,
                             current_track, playing_track, g_playing,
                             announce_path, announce_request,
                             track_change_request, g_stop_and_rewind,
                             stop_flag, notify, audio_task_handle, pc, hv, a,
                             st, i2s>>]_vars

\* C7 witness: the playing track is paused in the middle of its stream.
C7_Witness ==
    /\ variant \in {"v2", "rtos"}
    /\ nav_state = NAV_FILE_VIEW
    /\ g_playing
    /\ playing_track = current_track
    /\ g_pause
    /\ TrackStreaming
    /\ a.idx = playing_track
    /\ st["audio"].pos = 1

C9_SwitchAbortsCurrentTrack ==
    (/\ variant \in {"v2", "rtos"}
     /\ a.kind = "trk"
     /\ obs.play >= 0)
        => obs.play <= 1

\* C10: in v2 and rtos, a Home press in TrackList while a track is playing
\* stops playback: the track's stream returns within one chunk iteration,
\* so at most one more chunk is written after the press raised its stop
\* request.
C10_HomeStopsPlayback ==
    (/\ variant \in {"v2", "rtos"}
     /\ a.kind = "trk"
     /\ obs.home >= 0)
        => obs.home <= 1

\* C11: in v2 and rtos, while g_pause is set during a track's stream the
\* chunk loop idles at its top: from the flag test it neither reads nor
\* writes a chunk (the file position stays) and it leaves the test only
\* through the stop flag.
C11_PausedTrackStreamIdles ==
    [][(/\ variant \in {"v2", "rtos"}
        /\ a.kind = "trk"
        /\ pc["audio"] = "s_check"
        /\ g_pause)
          => /\ pc'["audio"] \in {"s_check", "s_exit"}
             /\ pc'["audio"] = "s_check"
                  => st'["audio"].pos = st["audio"].pos]_vars

\* C12: in rtos, once stop_flag is set while the audio task is in the chunk
\* loop of a stream, the flag stays set until the loop is left; the flag
\* test at the top of the iteration is never blocked (a paused stream tests
\* the stop flag first) and leaves the loop as Aborted without reading; so
\* at most the one chunk whose test was already passed is written.
C12_AbortWithinOneChunk ==
    [][(/\ variant = "rtos"
        /\ InLoop
        /\ stop_flag)
          => /\ pc'["audio"] \in {"s_check", "s_io"} => stop_flag'
             /\ pc["audio"] = "s_check"
                  => /\ ENABLED StreamCheck("audio")
                     /\ pc'["audio"] \in {"s_check", "s_exit"}
                     /\ st'["audio"].pos = st["audio"].pos
                     /\ pc'["audio"] = "s_exit"
                          => st'["audio"].result = "Aborted"
             /\ pc["audio"] = "s_io"
                  => /\ pc'["audio"] \in {"s_io", "s_check", "s_exit"}
                     /\ st'["audio"].pos <= st["audio"].pos + 1]_vars

\* stop_flag was set after the flag test of a track's first chunk was
\* passed: that chunk is still to be read and written.
C12_Witness ==
    /\ variant = "rtos"
    /\ a.kind = "trk"
    /\ pc["audio"] = "s_io"
    /\ st["audio"].pos = 0
    /\ stop_flag

\* C13: in every variant the resources of a stream are held only inside
\* it: every open file and every installed driver belongs to a task that is
\* between the setup and the end of its stream, so whichever way a stream
\* call returns (end of file, abort, header or format error, device error,
\* no memory) the driver is uninstalled and no file is left open.
C13_StreamReleasesOnEveryExit ==
    /\ files = Cardinality(Holders)
    /\ i2s = Cardinality(Holders)
    /\ Holders = {} => files = 0 /\ i2s = 0

\* The stream call of a track has just returned to the audio task.
C13_Witness ==
    /\ a.kind = "trk"
    /\ pc["audio"] = "trk_after"
    /\ files = 0
    /\ i2s = 0

\* C14: in every variant a stream attempt of a track that fails (missing
\* file, unparsable header, samples not 16 bit, device or memory error) is
\* not retried: when the audio task is back at the top of its loop after
\* the failed attempt, g_playing is false and playing_track is none, so
\* the task waits for the next request.
C14_FailedTrackNotRetried ==
    [][(/\ a.kind = "trk"
        /\ \/ pc["audio"] = "trk_after" /\ st["audio"].result = "Failed"
           \/ pc["audio"] = "v1_open"
        /\ pc'["audio"] \in {"wait", "poll"})
          => /\ ~g_playing'
             /\ playing_track' = -1]_vars

\* C15: in v2 and rtos, when the stream call of the track of the last play
\* request has returned (end of file or abort) and no input follows, the
\* audio task is back at the top of its loop with g_playing false and
\* playing_track none.
C15_ReturnedTrackClearsStatus ==
    [][(/\ variant \in {"v2", "rtos"}
        /\ a.kind = "trk"
        /\ pc["audio"] = "trk_after"
        /\ st["audio"].result # "Failed"
        /\ fin >= 0
        /\ a.idx = fin
        /\ \A t \in Handlers : pc[t] = "idle"
        /\ pc'["audio"] \in {"wait", "poll"})
          => /\ ~g_playing'
             /\ playing_track' = -1]_vars

\* C16: in every variant g_volume_percent is within [0, 200] in every
\* state, and so is every value of it that the scaling code of a stream
\* reads while a volume button press is being handled.
C16_VolumeWithinRange ==
    /\ g_volume_percent \in 0..200
    /\ scale.chk \in 0..200
    /\ scale.vol \in 0..200

\* C17: for every sample s and every volume v in [0, 200] the product s * v
\* fits 32 bits, the sample written is s * v / 100 (C division) clamped to
\* [-32768, 32767], it lies in that range, and for v = 100, where the code
\* skips the multiplication, it is what the multiplication would give: s.
C17_ScaledSampleClamped ==
    LET s == scale.s
        v == g_volume_percent
        q == c_div(s * v, 100)
        clamped == IF q > 32767 THEN 32767
                   ELSE IF q < -32768 THEN -32768 ELSE q
    IN  /\ v \in Volumes
        /\ int32(s * v) = s * v
        /\ WrittenSample(s, v, v) = clamped
        /\ clamped \in -32768..32767
        /\ v = 100 => Scaled(s, v) = s /\ WrittenSample(s, v, v) = s
        /\ scale.pc = "test" /\ scale.chk = v => scale.out = clamped

\* The largest sample has been scaled with volume 200 and was clamped.
C17_Witness ==
    /\ scale.pc = "test"
    /\ scale.s = 32767
    /\ scale.chk = 200
    /\ scale.vol = 200
    /\ scale.out = 32767

\* C18: a burst of rotary-step edges that all occur within 60 ms moves the
\* selection by one step whatever the delay between the ISR and
\* encoder_task: no step is accepted whose edge occurred less than
\* ENC_STEP_DEBOUNCE_MS after the edge of the previously accepted step.
C18_BurstIsOneStep ==
    (/\ inp.seen.src = "CLK"
     /\ inp.seen.prev >= 0
     /\ inp.seen.ok)
        => inp.seen.at - inp.seen.prev >= ENC_STEP_DEBOUNCE_MS

\* C19: a rotary-switch press or a button press is accepted if and only if
\* at least DEBOUNCE_MS have elapsed since the last accepted press of the
\* same source.
C19_PressAcceptedIffDebounced ==
    (/\ inp.seen.src \in {"SW"} \cup Buttons
     /\ inp.seen.prev >= 0)
        => (inp.seen.ok <=> inp.seen.at - inp.seen.prev >= DEBOUNCE_MS)

\* C20: the encoder queue never holds more than ENC_QUEUE_LEN events; the
\* events in it are, in order, the queued events not yet received (the
\* next one received is the oldest, and an event sent to a full queue left
\* no trace in it); sending is possible with the queue full.
C20_QueueBoundedFifo ==
    /\ Len(enc_queue) <= ENC_QUEUE_LEN
    /\ Len(enc_queue) = inp.sent - inp.recv
    /\ \A i \in 1..Len(enc_queue) : enc_queue[i].seq = inp.recv + i
    /\ Len(enc_queue) = ENC_QUEUE_LEN /\ CanSpend("cw") => ENABLED ClkEdge(0)

\* An event was sent to the full queue and an event has been received.
C20_Witness ==
    /\ inp.dropped >= 1
    /\ inp.recv >= 1
    /\ Len(enc_queue) = ENC_QUEUE_LEN - 1

\* C21: NavState changes only along four transitions: Home to FolderList by
\* a PlayPause or switch press with a non-empty folder list, FolderList to
\* TrackList by such a press, TrackList to FolderList and FolderList to Home
\* by a Home press; no other step changes it, and Home is never reached
\* directly from TrackList nor TrackList directly from Home.
C21_NavTransitions ==
    [][nav_state' # nav_state =>
        \/ /\ nav_state = NAV_HOME
           /\ nav_state' = NAV_FOLDER_VIEW
           /\ num_folders > 0
           /\ \E t \in Handlers : PlayPausePress(t)
        \/ /\ nav_state = NAV_FOLDER_VIEW
           /\ nav_state' = NAV_FILE_VIEW
           /\ \E t \in Handlers : EnterFolder(t)
        \/ /\ nav_state = NAV_FILE_VIEW
           /\ nav_state' = NAV_FOLDER_VIEW
           /\ HomeNav
        \/ /\ nav_state = NAV_FOLDER_VIEW
           /\ nav_state' = NAV_HOME
           /\ HomePress]_vars

\* The control words that the input handlers write, and their positions.
HandlerState ==
    <<nav_state, selected_folder, wav_list, current_track, playing_track,
      g_playing, g_pause, announce_path, announce_request,
      track_change_request, g_stop_and_rewind, stop_flag, notify, pc, hv>>

\* C22: with an empty folder list every rotary step, switch press, PlayPause
\* press and Home press leaves NavState at Home and the selection indices,
\* the playback status and the announcement slot unchanged; with an empty
\* track list in TrackList a rotary step or a PlayPause or switch press
\* changes no state and sends no play request; the handler is back in its
\* loop afterwards.
C22_EmptyListNoop ==
    [][/\ (num_folders = 0 /\ events' # events) =>
            /\ nav_state' = NAV_HOME
            /\ UNCHANGED HandlerState
            /\ \A t \in Handlers : pc'[t] = "idle"
       /\ (/\ nav_state = NAV_FILE_VIEW
           /\ num_tracks = 0
           /\ RotaryStep \/ \E t \in Handlers : PlayPausePress(t)) =>
            /\ UNCHANGED HandlerState
            /\ pc'["enc"] = "idle" \/ pc'["main"] = "idle"]_vars

\* A play request waits in the notification value of the audio task and
\* the audio task will act on it (with the announce bit set, or with an
\* index beyond the list, it drops the payload).
PlayRequestWaiting ==
    /\ notify.play # 0
    /\ ~notify.ann
    /\ notify.play - 1 < num_tracks

\* The audio task holds a play request that it has received and not yet
\* acted on (the stream of the track is not yet called).
PlayRequestTaken ==
    /\ a.kind = "trk"
    /\ \/ pc["audio"] = "trk_check" /\ a.idx < num_tracks
       \/ pc["audio"] \in {"trk_clear", "trk_status", "trk_call"}

\* C23 (RTOS): the FolderList to TrackList transition resets the track
\* selection to 0 and clears any in-flight playback intent: after it nothing
\* is playing, the playing index is none, pause is off, and no play request
\* made before it is left for the audio task to act on.  Stated for an entry
\* that ends while the other input handler is idle.
C23_EntryClearsIntent ==
    [][(/\ variant = "rtos"
        /\ nav_state = NAV_FOLDER_VIEW
        /\ \E t \in Handlers : EnterFolder(t) /\ OtherIdle(t)) =>
        /\ current_track' = 0
        /\ ~g_playing'
        /\ playing_track' = -1
        /\ ~g_pause'
        /\ ~PlayRequestWaiting'
        /\ ~PlayRequestTaken']_vars

\* The index after k steps of direction level d from index i in a list of
\* n entries.
RECURSIVE Turned(_, _, _, _)
Turned(i, d, n, k) ==
    IF k = 0 THEN i ELSE Turned(StepIndex(i, d, n), d, n, k - 1)

\* The laws of a step on index i of a list of n entries.
StepLaws(i, n) ==
    \A d \in {0, 1} :
        /\ StepIndex(i, d, n) \in 0..(n - 1)
        /\ StepIndex(i, d, n) = (i + (IF d = 0 THEN 1 ELSE -1)) % n
        /\ StepIndex(StepIndex(i, d, n), 1 - d, n) = i
        /\ Turned(i, d, n, n) = i

C25_TrackIndexWithinList ==
    [][RtosTrkCall => (a.idx >= 0 /\ a.idx < num_tracks)]_vars

\* Handler t ends its step by calling request_announcement(clip), or, for
\* clip NULL, by going back to its loop without a request.
Raises(t, clip) ==
    IF clip # NULL
    THEN pc'[t] = "ra_path" /\ hv'[t].path = clip
    ELSE pc'[t] = "idle"

\* The clip that the selection of the track fullname is to announce: for a
\* name "S<n>..." or "s<n>..." story<n>.wav at the root if it is there, else
\* story<n>.wav in the track's folder if it is there, else none.
StoryFor(fullname) ==
    LET trackname == fullname[Len(fullname)]
        ownfolder == fullname[Len(fullname) - 1]
        ownfiles == FolderFiles(ownfolder)
    IN  IF trackname[1] \in {"S", "s"} /\ trackname[2] \in Digits
        THEN IF story_name(trackname[2]) \in card.clips
             THEN <<SDCARD, story_name(trackname[2])>>
             ELSE IF \E j \in 1..Len(ownfiles) : ownfiles[j] = story_name(trackname[2])
                  THEN <<SDCARD, ownfolder, story_name(trackname[2])>>
                  ELSE NULL
        ELSE NULL

\* A track is selected by a rotary step in TrackList, or as the first track
\* of a ownfolder entry; the handler then raises the request for its story clip.
SelectionRaisesStory ==
    /\ \A d \in {0, 1} :
         (RotaryStepOf(d) /\ nav_state = NAV_FILE_VIEW /\ num_tracks > 0)
            => Raises("enc", StoryFor(wav_list[current_track' + 1]))
    /\ \A t \in Handlers :
         (EnterFolder(t) /\ num_tracks > 0)
            => Raises(t, StoryFor(wav_list[1]))

\* C26 as stated, for every variant: selecting a track named "S<n>..." raises
\* an announcement request for story<n>.wav at the storage root if it
\* exists, else in the track's folder if it exists there, else none; another
\* name raises none.
C26_StoryRequestInEveryVariant == [][SelectionRaisesStory]_vars

\* C26 as amended: the same in the v2 and RTOS variants (noor_v1 has no
\* announcements).
C26_StoryRequest == [][variant # "v1" => SelectionRaisesStory]_vars

\* The step to track S4, which has no clip at the root, has raised the
\* request for story4.wav of the track's folder.
C26_Witness ==
    /\ nav_state = NAV_FILE_VIEW
    /\ WavAt(current_track) = <<SDCARD, NAME_STORIES, TRACK_S4>>
    /\ pc["enc"] = "ra_path"
    /\ hv["enc"].path = <<SDCARD, NAME_STORIES, story_name("4")>>

\* The clip that a folder named "01" or "stories" (in any case) announces:
\* stories.wav at the root if it is there, else the folder's own, else none.
StoriesFor(fp) ==
    LET foldername == fp[Len(fp)]
        ownfiles == FolderFiles(foldername)
    IN  IF foldername \in {NAME_01, NAME_STORIES, NAME_Stories}
        THEN IF STORIES_WAV \in card.clips
             THEN <<SDCARD, STORIES_WAV>>
             ELSE IF \E j \in 1..Len(ownfiles) : ownfiles[j] = STORIES_WAV
                  THEN <<SDCARD, foldername, STORIES_WAV>>
                  ELSE NULL
        ELSE NULL

\* The press that confirms the entry calls request_announcement(clip) and
\* goes on to scan the folder, or, for clip NULL, scans it at once.
RaisesOnEntry(t, clip) ==
    IF clip # NULL
    THEN pc'[t] = "ra_flag" /\ announce_path' = clip
                            /\ hv'[t].cont = "scan_free"
    ELSE pc'[t] = "scan_fill" /\ UNCHANGED announce_path

\* Handler t begins a call of request_announcement for a stories.wav.
StoriesRequestBegins(t) ==
    \/ /\ pc[t] # "ra_path" /\ pc'[t] = "ra_path"
       /\ hv'[t].path[Len(hv'[t].path)] = STORIES_WAV
    \/ /\ pc[t] \notin {"ra_path", "ra_flag"} /\ pc'[t] = "ra_flag"
       /\ announce_path'[Len(announce_path')] = STORIES_WAV

EntryRaisesStories ==
    /\ \A t \in Handlers :
         (PlayPausePress(t) /\ nav_state = NAV_FOLDER_VIEW /\ num_folders > 0)
            => RaisesOnEntry(t, StoriesFor(folder_list[selected_folder + 1]))
    /\ \A d \in {0, 1} :
         (/\ RotaryStepOf(d)
          /\ nav_state \in {NAV_HOME, NAV_FOLDER_VIEW}
          /\ num_folders > 0)
            => Raises("enc", StoriesFor(folder_list[selected_folder' + 1]))
    /\ \A t \in Handlers : StoriesRequestBegins(t) => events' = events + 1

ScanLen == 4

ScanNames == {NAME_00, NAME_01, NAME_02, NAME_AUDIOS, NAME_STORIES}

\* The card images of the boot scan: every ordering of up to ScanLen
\* different folder names (readdir returns each name once, in any order).
ScanCards ==
    {[clips |-> {}, folders |-> fs] :
        fs \in {s \in UNION {[1..n -> ScanNames] : n \in 0..ScanLen} :
                   \A i, j \in DOMAIN s : s[i] = s[j] => i = j}}

\* The globals as initialised, app_main about to scan the root.
ScanInit ==
    /\ variant \in Variants
    /\ card \in ScanCards
    /\ Started([t \in Tasks |-> IF t = "main" THEN "boot_scan" ELSE "none"], 0)

\* scan_root_folders("/sdcard") and the choice of the default folder.
BootScan ==
    /\ pc["main"] = "boot_scan"
    /\ selected_folder' = DefaultFolder
    /\ pc' = [pc EXCEPT !["main"] = "boot_welcome"]
    /\ UNCHANGED <<variant, card, nav_state, wav_list, current_track,
                   playing_track, g_playing, g_pause, announce_path,
                   announce_request, track_change_request, g_stop_and_rewind,
                   stop_flag, notify, audio_task_handle, hv, a, st, i2s,
                   files, g_volume_percent, scale, now, enc_queue,
                   last_step_time, last_sw_time, btn, level, inp, events, obs,
                   fin>>

ScanSpec == ScanInit /\ [][BootScan]_vars

TrackStreamStarts ==
    /\ pc["audio"] \notin {"s_open", "v1_open"}
    /\ pc'["audio"] \in {"s_open", "v1_open"}
    /\ a'.kind = "trk"

\* C29: in every variant the audio task starts a track stream only when the
\* requested index is valid (0 <= index < track count) and NavState is
\* TrackList at the moment the stream is started; a play request with an
\* invalid index starts no stream.
C29_StreamOnlyInTrackList ==
    [][TrackStreamStarts =>
          /\ a'.idx >= 0
          /\ a'.idx < num_tracks
          /\ nav_state = NAV_FILE_VIEW]_vars

\* The audio task is inside the stream of an announcement.
AnnouncementStreaming ==
    /\ a.kind = "ann"
    /\ pc["audio"] \in {"s_open", "s_check", "s_io", "s_exit"}

\* The word that the stop pointer of the audio task's stream points to.
AbortFlag ==
    IF st["audio"].stop = "stop_flag" THEN stop_flag ELSE announce_request

\* C30: in the v2 and RTOS variants the abort flag of an announcement stream
\* is armed only by a newer announcement request, not by the playback
\* intent: a play or track-switch request made while an announcement is
\* streaming does not abort that announcement.
C30_AnnouncementAbortFlag ==
    [][(/\ variant \in {"v2", "rtos"}
        /\ AnnouncementStreaming
        /\ ~AbortFlag
        /\ AbortFlag') => \E t \in Handlers : RequestFlag(t)]_vars

(* ---------------------------------------------------------------------- *)
(* request_announcement alone, called with every kind of path while a      *)
(* track is streaming                                                      *)
(* ---------------------------------------------------------------------- *)

\* The paths of the calls: no path, and the two root clips.
CallPaths == {NULL, <<SDCARD, HOME_WAV>>, <<SDCARD, STORIES_WAV>>}

CallInit ==
    /\ TrackPlaying
    /\ variant \in {"v2", "rtos"}
    /\ g_volume_percent = 100
    /\ InputIdle
    /\ scale = ScaleIdle

\* A handler calls request_announcement(path).
CallRequest(t, path) ==
    /\ pc[t] = "idle"
    /\ events < MaxEvents
    /\ events' = events + 1
    /\ pc' = [pc EXCEPT ![t] = "ra_path"]
    /\ hv' = [hv EXCEPT ![t] = [HvIdle EXCEPT !.path = path]]
    /\ UNCHANGED <<variant, card, nav_state, selected_folder, wav_list,
                   current_track, playing_track, g_playing, g_pause,
                   announce_path, announce_request, track_change_request,
                   g_stop_and_rewind, stop_flag, notify, audio_task_handle, a,
                   st, i2s, files, g_volume_percent, scale, now, enc_queue,
                   last_step_time, last_sw_time, btn, level, inp, obs, fin>>

CallNext ==
    \/ \E t \in Handlers, path \in CallPaths : CallRequest(t, path)
    \/ \E t \in Handlers : RequestPath(t)
    \/ \E t \in Handlers : RequestFlag(t)
    \/ \E t \in Handlers : RequestNotify(t)
    \/ StreamCheck("audio")
    \/ StreamIO("audio")
    \/ StreamExit("audio")

CallSpec == CallInit /\ [][CallNext]_vars

\* Handler t takes a step inside request_announcement.
InRequest(t) ==
    /\ pc[t] \in {"ra_path", "ra_flag", "ra_notify"}
    /\ pc'[t] # pc[t]

ReadsAtEnd(t) ==
    /\ pc[t] \in {"s_io", "v1_io"}
    /\ st[t].pos = FileLen
    /\ pc'[t] # pc[t]

\* C32: in every variant, reaching end of file ends the streaming loop with
\* Completed: the read that finds the end of the file leaves the loop, with
\* every chunk written once and the file not rewound or replayed.
C32_EndOfFileEndsStream ==
    [][\A t \in Streamers : ReadsAtEnd(t) =>
          /\ pc'[t] \in {"s_exit", "v1_exit"}
          /\ st'[t].pos = FileLen]_vars

(* ---------------------------------------------------------------------- *)
(* The chunk loop with every outcome of the write to the device             *)
(* ---------------------------------------------------------------------- *)

WriteInit ==
    /\ TrackPlaying
    /\ g_volume_percent = 100
    /\ InputIdle
    /\ scale = ScaleIdle

\* The track streams, each write ends in any of its outcomes, and Home is
\* pressed at any time.
WriteNext ==
    \/ StreamCheck("audio")
    \/ \E res \in WriteOutcomes : StreamIOof("audio", res)
    \/ StreamExit("audio")
    \/ V1Check
    \/ \E res \in WriteOutcomes : V1IOof(res)
    \/ V1Exit
    \/ HomePress
    \/ HomeStop
    \/ HomeFree
    \/ HomeNav
    \/ \E t \in Handlers : RequestPath(t)
    \/ \E t \in Handlers : RequestFlag(t)
    \/ \E t \in Handlers : RequestNotify(t)

WriteSpec == WriteInit /\ [][WriteNext]_vars

\* Streamer t writes a chunk to the device and the write ends with res.
WritesChunk(t, res) ==
    /\ pc[t] \in {"s_io", "v1_io"}
    /\ st[t].pos < FileLen
    /\ pc'[t] # pc[t]
    /\ st'[t].wr = res

\* C33: a failed or timed-out write to the audio device does not end or
\* fail the stream and is not retried: the loop goes on to the next chunk,
\* and the stream leaves its loop only from the test of the abort signals
\* or from the read that finds the end of the file.
C33_FailedWriteGoesOn ==
    [][\A t \in Streamers :
          /\ \A res \in {"short", "failed"} : WritesChunk(t, res) =>
                /\ st'[t].pos = st[t].pos + 1
                /\ pc'[t] \in {"s_check", "v1_check"}
                /\ st'[t].result = "none"
          /\ (pc[t] \notin {"s_exit", "v1_exit"}
              /\ pc'[t] \in {"s_exit", "v1_exit"}) =>
                \/ pc[t] \in {"s_check", "v1_check"}
                \/ pc[t] = "s_io" /\ st[t].pos = FileLen]_vars

\* The first write failed, the second chunk was written all the same, and the
\* stream has ended at the end of the file as Completed.
C33_Witness ==
    /\ pc["audio"] = "s_exit"
    /\ st["audio"].pos = FileLen
    /\ st["audio"].wr = "failed"
    /\ st["audio"].result = "Completed"

(* ---------------------------------------------------------------------- *)
(* The stream call of a track from its first statement, on a file that is  *)
(* there and on one that is not                                            *)
(* ---------------------------------------------------------------------- *)

OpenInit ==
    /\ variant \in {"v2", "rtos"}
    /\ \E missing \in BOOLEAN :
         TrackTaken("s_open",
                    [TrackCall EXCEPT !.path = IF missing THEN NULL ELSE @],
                    0)
    /\ g_volume_percent = 100
    /\ InputIdle
    /\ scale = ScaleIdle

OpenNext ==
    \/ StreamOpen("audio")
    \/ StreamCheck("audio")
    \/ StreamIO("audio")
    \/ StreamExit("audio")
    \/ HomePress
    \/ HomeStop
    \/ HomeFree
    \/ HomeNav
    \/ \E t \in Handlers : RequestPath(t)
    \/ \E t \in Handlers : RequestFlag(t)
    \/ \E t \in Handlers : RequestNotify(t)

OpenSpec == OpenInit /\ [][OpenNext]_vars

\* C34: a stream call on a missing file, on a file with an unparsable
\* header, or on a file whose samples are not 16 bit returns failure without
\* ever configuring the audio output (i2s_driver_install is not executed)
\* and without writing any chunk; the file, if it was opened, is closed
\* before the return.
C34_BadFileFailsBeforeOutput ==
    [][\A t \in Streamers :
        (pc[t] = "s_open" /\ pc'[t] # "s_open") =>
        \A hdr \in HeaderOutcomes, dev \in DeviceOutcomes :
          (/\ StreamOpenOf(t, hdr, dev)
           /\ \/ st[t].path = NULL
              \/ ~access(st[t].path)
              \/ hdr \in {"bad_header", "not_16bit"})
          => /\ ~StreamSetup(st[t].path, hdr, dev).install
             /\ StreamSetup(st[t].path, hdr, dev).fopen
                   => StreamSetup(st[t].path, hdr, dev).fclose
             /\ i2s' = i2s
             /\ files' = files
             /\ pc'[t] = st[t].ret
             /\ st'[t].pos = 0
             /\ st[t].ret = "trk_after" => st'[t].result = "Failed"]_vars

\* The stream call of a track whose samples are not 16 bit has returned
\* failure to the audio task: no driver is installed and no file is open.
C34_Witness ==
    /\ pc["audio"] = "trk_after"
    /\ st["audio"].result = "Failed"
    /\ st["audio"].err = "not_16bit"
    /\ st["audio"].pos = 0
    /\ i2s = 0
    /\ files = 0

\* Handler t begins a call of request_announcement.
RequestBegins(t) ==
    pc[t] \notin {"ra_path", "ra_flag"} /\ pc'[t] \in {"ra_path", "ra_flag"}

\* Handler t begins a call of request_announcement("/sdcard/home.wav").
HomeRequestBegins(t) ==
    /\ pc[t] # "ra_path"
    /\ pc'[t] = "ra_path"
    /\ hv'[t].path = make_path(ROOT, HOME_WAV)

\* The calls of request_announcement that a step of noor_v2 or
\* Noor_RTOS_version begins for home.wav, and the ones a Home press begins.
HomeClipLaw ==
    variant \in {"v2", "rtos"} =>
        /\ \A t \in Handlers :
             HomeRequestBegins(t) <=>
               (/\ t = "main"
                /\ HomePress
                /\ nav_state = NAV_FOLDER_VIEW
                /\ nav_state' = NAV_HOME
                /\ HOME_WAV \in card.clips)
        /\ (HomePress /\ nav_state \in {NAV_HOME, NAV_FILE_VIEW}) =>
             (/\ ~RequestBegins("main")
              /\ announce_path' = announce_path
              /\ announce_request' = announce_request
              /\ notify' = notify)
        /\ (pc["main"] \in {"home_stop", "home_free", "home_nav"}) =>
             ~RequestBegins("main")

\* C35: in noor_v2 and Noor_RTOS_version a call of request_announcement for
\* home.wav begins exactly in a Home press that takes nav_state from
\* NAV_FOLDER_VIEW to NAV_HOME on a card that has /sdcard/home.wav; a Home
\* press in NAV_HOME and a Home press in NAV_FILE_VIEW begin no call of
\* request_announcement, and neither do the later statements of the Home
\* handler in NAV_FILE_VIEW.
C35_HomeClipOnLeavingFolders == [][HomeClipLaw]_vars

\* The Home handler is in its call for home.wav and NAV_HOME is set.
C35_Witness ==
    /\ variant \in {"v2", "rtos"}
    /\ nav_state = NAV_HOME
    /\ pc["main"] = "ra_path"
    /\ hv["main"].path = make_path(ROOT, HOME_WAV)

\* The audio task of Noor_RTOS_version has taken a play payload and is in
\* the branch that serves it, up to the status update after the stream.
TrackJob ==
    /\ a.kind = "trk"
    /\ pc["audio"] \in {"trk_check", "trk_clear", "trk_status", "trk_call",
                        "s_open", "s_check", "s_io", "s_exit", "trk_after"}

\* A handler is between its write of g_playing and its xTaskNotify.
PlayRequestRunning == \E t \in Handlers : pc[t] \in {"pr_stop", "pr_notify"}

\* C36: in Noor_RTOS_version, in every reachable state where g_playing is
\* true, a play request for the playing index is pending at the audio task
\* (or is being sent by its handler), or the audio task is serving a track;
\* a play payload merged with or followed by the announce bit before the
\* audio task wakes is not lost while g_playing stays true.
C36_PlayingHasWork ==
    (variant = "rtos" /\ g_playing) =>
        \/ notify.play = playing_track + 1
        \/ PlayRequestRunning
        \/ TrackJob

(* ---------------------------------------------------------------------- *)
(* The rotary step in NAV_FILE_VIEW statement by statement, beside the     *)
(* presses handled by app_main                                             *)
(* ---------------------------------------------------------------------- *)

\* if (nav_state == NAV_FILE_VIEW) { if (num_tracks > 0) { ...
StepTrackTest ==
    /\ Accept("enc")
    /\ nav_state = NAV_FILE_VIEW
    /\ pc' = [pc EXCEPT !["enc"] = IF num_tracks > 0 THEN "rot_mod" ELSE "idle"]
    /\ UNCHANGED <<variant, card, nav_state, selected_folder, wav_list,
                   current_track, playing_track, g_playing, g_pause,
                   announce_path, announce_request, track_change_request,
                   g_stop_and_rewind, stop_flag, notify, audio_task_handle,
                   hv, a, st, i2s, files, g_volume_percent, scale, now,
                   enc_queue, last_step_time, last_sw_time, btn, level, inp,
                   obs, fin>>

\* current_track = (current_track + 1) % num_tracks; or
\* current_track = (current_track - 1 + num_tracks) % num_tracks;
\* With num_tracks = 0 the division either traps (the task is gone) or
\* leaves the dividend.
StepTrackMod(dt_level) ==
    /\ pc["enc"] = "rot_mod"
    /\ IF num_tracks > 0
       THEN /\ current_track' = StepIndex(current_track, dt_level, num_tracks)
            /\ pc' = [pc EXCEPT !["enc"] = "rot_read"]
       ELSE \/ /\ pc' = [pc EXCEPT !["enc"] = "rot_trap"]
               /\ UNCHANGED current_track
            \/ /\ current_track' = IF dt_level = 0
                                   THEN current_track + 1
                                   ELSE current_track - 1
               /\ pc' = [pc EXCEPT !["enc"] = "rot_read"]
    /\ UNCHANGED <<variant, card, nav_state, selected_folder, wav_list,
                   playing_track, g_playing, g_pause, announce_path,
                   announce_request, track_change_request, g_stop_and_rewind,
                   stop_flag, notify, audio_task_handle, hv, a, st, i2s,
                   files, g_volume_percent, scale, now, enc_queue,
                   last_step_time, last_sw_time, btn, level, inp, events, obs,
                   fin>>

\* const char *fullname = wav_list[current_track]; strrchr(fullname, '/');
\* then the story clip of the name is requested.  An entry that
\* free_wav_list has cleared is NULL and strrchr traps on it.
StepTrackRead ==
    /\ pc["enc"] = "rot_read"
    /\ IF WavAt(current_track) = NULL
       THEN /\ pc' = [pc EXCEPT !["enc"] = "rot_trap"]
            /\ UNCHANGED hv
       ELSE LET clip == ClipFor(StoryClip(WavAt(current_track)))
            IN  IF clip # NULL
                THEN /\ pc' = [pc EXCEPT !["enc"] = "ra_path"]
                     /\ hv' = [hv EXCEPT !["enc"] =
                                 [HvIdle EXCEPT !.path = clip]]
                ELSE /\ pc' = [pc EXCEPT !["enc"] = "idle"]
                     /\ UNCHANGED hv
    /\ UNCHANGED <<variant, card, nav_state, selected_folder, wav_list,
                   current_track, playing_track, g_playing, g_pause,
                   announce_path, announce_request, track_change_request,
                   g_stop_and_rewind, stop_flag, notify, audio_task_handle, a,
                   st, i2s, files, g_volume_percent, scale, now, enc_queue,
                   last_step_time, last_sw_time, btn, level, inp, events, obs,
                   fin>>

RaceNext ==
    \/ \E t \in Handlers : PlayPausePress(t)
    \/ \E t \in Handlers : ScanFree(t)
    \/ \E t \in Handlers : ScanFill(t)
    \/ \E t \in Handlers : EnterFolder(t)
    \/ HomePress
    \/ HomeStop
    \/ HomeFree
    \/ HomeNav
    \/ StepTrackTest
    \/ \E dt_level \in {0, 1} : StepTrackMod(dt_level)
    \/ StepTrackRead
    \/ RequestNext
    \/ FlagHandlerNext
    \/ RtosHandlerNext

RaceSpec == HandlerInit /\ [][RaceNext]_vars

\* The rotary handler takes the modulo in this step.
TakesModulo == pc["enc"] = "rot_mod" /\ pc'["enc"] # "rot_mod"

\* The rotary handler reads wav_list[current_track] in this step.
ReadsEntry == pc["enc"] = "rot_read" /\ pc'["enc"] # "rot_read"

\* C37: under every interleaving of the statements of the encoder task and
\* of app_main, the count is non-zero when the rotary step takes its modulo
\* and the index is within [0, count) when it reads the list entry: a step
\* handled beside a Home press that frees the track list takes no modulo by
\* zero and reads no freed or out-of-range entry.
C37_IndexWithinCount ==
    [][/\ TakesModulo => num_tracks > 0
       /\ ReadsEntry => current_track \in 0..(num_tracks - 1)]_vars

\* No input handler is inside a step.
HandlersIdle == \A t \in Handlers : pc[t] = "idle"

\* C38: between input-handler steps the track list is empty and
\* current_track is 0 whenever nav_state is not NAV_FILE_VIEW, and the
\* folder list is non-empty whenever nav_state is NAV_FOLDER_VIEW or
\* NAV_FILE_VIEW.
C38_ListsFollowNavState ==
    HandlersIdle =>
        /\ nav_state # NAV_FILE_VIEW => (wav_list = <<>> /\ current_track = 0)
        /\ nav_state \in {NAV_FOLDER_VIEW, NAV_FILE_VIEW} => num_folders > 0

(* ---------------------------------------------------------------------- *)
(* Noor_RTOS_version after the boot with its scheduling, on the card whose *)
(* second track has a story clip: an announcement is requested while the   *)
(* first track is paused                                                   *)
(* ---------------------------------------------------------------------- *)

PauseInit ==
    /\ variant = "rtos"
    /\ card = BareCard
    /\ Booted([t \in Tasks |-> IF t = "audio" THEN "wait" ELSE "idle"])

\* The card has no stories.wav, so a folder entry never goes through a
\* request first and the scan is always entered at its second half.
PauseNext ==
    \/ \E t \in Handlers : PlayPausePress(t)
    \/ \E t \in Handlers : ScanFill(t)
    \/ \E t \in Handlers : EnterFolder(t)
    \/ HomePress
    \/ HomeStop
    \/ HomeFree
    \/ HomeNav
    \/ RotaryStep
    \/ RequestNext
    \/ RtosHandlerNext
    \/ AudioStreamNext
    \/ RtosAudioNext

PauseSpec ==
    /\ PauseInit
    /\ [][PauseNext]_vars
    /\ WF_vars(AudioStreamNext \/ RtosAudioNext)
    /\ \A t \in Handlers : WF_vars(HandlerStep(t))

\* The stream of a track sleeps on the pause flag at the top of its loop.
PausedTrack ==
    /\ a.kind = "trk"
    /\ pc["audio"] = "s_check"
    /\ PauseSet("audio")

\* The last input of a run has made a handler call request_announcement
\* (the path is stored, the stop flag and the notification are to come)
\* while the stream of a track sleeps on the pause flag.
RequestedWhilePaused ==
    /\ variant = "rtos"
    /\ events = MaxEvents
    /\ PausedTrack
    /\ \E t \in Handlers :
         /\ pc[t] = "ra_flag"
         /\ \A u \in Handlers \ {t} : pc[u] = "idle"

\* The stream of an announcement is at the top of its loop with g_pause set
\* and no abort asked for.
AnnouncementUnderPause ==
    /\ variant = "rtos"
    /\ a.kind = "ann"
    /\ pc["audio"] = "s_check"
    /\ g_pause
    /\ ~stop_flag

\* C39: in Noor_RTOS_version the pause flag never blocks an announcement.
\* The stream of an announcement has no pause pointer; an announcement
\* requested while the stream of a track sleeps on the pause flag ends that
\* stream as Aborted and the audio task then calls the stream of the
\* announcement; and that stream goes on to read its next chunk while
\* g_pause is still set, unless a new request sets the stop flag first.
C39_PauseNeverBlocksAnnouncement ==
    /\ []((variant = "rtos" /\ AnnouncementStreaming) => ~st["audio"].pause)
    /\ RequestedWhilePaused
         ~> (pc["audio"] = "s_exit" /\ a.kind = "trk"
                                    /\ st["audio"].result = "Aborted")
    /\ RequestedWhilePaused ~> (a.kind = "ann" /\ pc["audio"] = "s_open")
    /\ AnnouncementUnderPause
         ~> (a.kind = "ann" /\ (pc["audio"] = "s_io" \/ stop_flag))

\* The announcement requested under pause has had a chunk written, and
\* g_pause is still set.
C39_Witness ==
    /\ variant = "rtos"
    /\ a.kind = "ann"
    /\ a.local_ann = make_path(make_path(ROOT, NAME_STORIES), story_name("4"))
    /\ pc["audio"] = "s_check"
    /\ st["audio"].pos >= 1
    /\ g_pause
    /\ events = MaxEvents

====
